---- MODULE Spec2Model ----
(***************************************************************************)
(* Model of the ATS form-automation engine: the retry/backoff executor of   *)
(* BasePlatform, the interactive primitives built on it, and the           *)
(* progressive-threshold option matcher findBestMatch.                       *)
(*                                                                         *)
(* Scores and thresholds are in tenths (0.2 -> 2).  Delays are in ms.       *)
(***************************************************************************)
EXTENDS Integers, Sequences, FiniteSets, TLC

VARIABLES
    mOptions,   \* findBestMatch: the options argument (MatchableOption[])
    mScore,     \* Fuse bitap score of targetValue against each key string
    mpc,        \* findBestMatch: "idle" before the call, "done" after it
    mVariant,   \* which source file's findBestMatch ran
    mResult,    \* findBestMatch: the value returned
    mTier,      \* findBestMatch: loop index i at the return (0: not in loop)
    mWarns,     \* findBestMatch: console.warn calls made
    stack,      \* active retryWithBackoff calls, outermost first
    outcome,    \* how the outermost call ended, with its final frame
    watch,      \* call path of the page operation whose attempts are counted
    pageCount,  \* attempts of the watched page operation so far
    ctl,        \* the page: state of the toggled control
    typed,      \* the page: characters in the text input being typed into
    rpc,        \* run(): where the call is
    now,        \* Date.now()
    startTime,  \* run(): const startTime
    thrown,     \* run(): the value apply() threw
    applied,    \* run(): the value apply() returned
    shots,      \* screenshot() calls so far, with their outcome
    runResult,  \* run(): the ApplicationResult returned
    vProfile,   \* validateProfile: the profile argument
    vpc,        \* validateProfile: "idle" before the call, "done" after it
    vError,     \* validateProfile: the message of the Error thrown, <<>> if none
    platforms,  \* PlatformRegistry.platforms
    gResult,    \* PlatformRegistry: the last detectPlatform / createAdapter call
    gNew,       \* PlatformRegistry: adapters instantiated by the last call
    aVariant,   \* applyToJob: which source file's applyToJob runs
    aUrl,       \* applyToJob: the url argument
    aProfile,   \* applyToJob: the profile argument
    apc,        \* applyToJob: where the call is
    aBrowser,   \* applyToJob: let browser (TRUE once launched)
    aLog,       \* applyToJob: what has been done so far, in order
    aPending,   \* applyToJob: the completion the finally block was entered with
    aOutcome,   \* applyToJob: how the call ended for its caller
    aCalls,     \* main: targets applied to so far (0: applyToJob called directly)
    aOpen,      \* browser processes that are open
    hText,      \* typeWithVariableSpeed: the text argument
    hField,     \* typeWithVariableSpeed: the fieldType argument
    hi,         \* typeWithVariableSpeed: loop index i (0-based)
    hpc,        \* HumanBehavior: which call is running
    hEvents,    \* HumanBehavior: keyboard.type and randomDelay calls, in order
    hClick,     \* clickWithOffset: the element.click call made
    oPrim,      \* option resolution: the primitive (select, check, selectSmart)
    oTarget,    \* option resolution: targetValue
    oDom,       \* option resolution: the option elements / inputs on the page
    oEnd,       \* option resolution: what the primitive did after the match
    dAdapter,   \* apply(): the adapter class
    dProfile,   \* apply(): the optional parts of this.profile
    dip,        \* apply(): index of the next awaited step
    dpc,        \* apply(): "idle", "running", "returned" or "threw"
    dLog        \* apply(): the awaited steps so far, with their outcome

mvars == <<mOptions, mScore, mpc, mVariant, mResult, mTier, mWarns>>

rvars == <<stack, outcome, watch, pageCount, ctl, typed>>

vars == <<mOptions, mScore, mpc, mVariant, mResult, mTier, mWarns,
          stack, outcome, watch, pageCount, ctl, typed,
          rpc, now, startTime, thrown, applied, shots, runResult,
          vProfile, vpc, vError, platforms, gResult, gNew,
          aVariant, aUrl, aProfile, apc, aBrowser, aLog, aPending, aOutcome,
          aCalls, aOpen,
          hText, hField, hi, hpc, hEvents, hClick,
          oPrim, oTarget, oDom, oEnd,
          dAdapter, dProfile, dip, dpc, dLog>>

valvars == <<vProfile, vpc, vError>>
regvars == <<platforms, gResult, gNew>>
applyvars == <<aVariant, aUrl, aProfile, apc, aBrowser, aLog, aPending, aOutcome,
               aCalls, aOpen>>
humanvars == <<hText, hField, hi, hpc, hEvents, hClick>>
resolvevars == <<oPrim, oTarget, oDom, oEnd>>
adaptervars == <<dAdapter, dProfile, dip, dpc, dLog>>
stepvars == <<resolvevars, adaptervars>>
appvars == <<valvars, regvars, applyvars, humanvars, stepvars>>

runvars == <<rpc, now, startTime, thrown, applied, shots, runResult>>

\* nothing thrown, nothing returned yet
NoThrown == [isError |-> FALSE, kind |-> "none", message |-> "", num |-> 0]
NoResult == [pending |-> TRUE]

\* run() has not been called
RunIdle ==
    /\ rpc = "idle"
    /\ now = 0
    /\ startTime = 0
    /\ thrown = NoThrown
    /\ applied = <<>>
    /\ shots = <<>>
    /\ runResult = NoResult

\* values a profile field can hold: undefined, null, a string (its
\* characters), an array (its length), a number
Undefined == [t |-> "undefined", chars |-> <<>>, len |-> 0]
Null == [t |-> "null", chars |-> <<>>, len |-> 0]
Str(chars) == [t |-> "string", chars |-> chars, len |-> 0]
Arr(len) == [t |-> "array", chars |-> <<>>, len |-> len]
Num == [t |-> "number", chars |-> <<>>, len |-> 0]

\* const requiredFields
requiredFields ==
    <<"firstName", "lastName", "email", "phone", "location", "school",
      "education", "experienceLevel", "skills", "coverLetter",
      "earliestStartDate", "referralSource">>
FieldNames == {requiredFields[i] : i \in DOMAIN requiredFields}

\* a complete profile: skills is a list, every other field a string
sampleProfile == [f \in FieldNames |-> IF f = "skills" THEN Arr(1) ELSE Str(<<"x">>)]

NoPlatform == [name |-> "<null>", urlPattern |-> <<>>, adapter |-> "<null>"]
NoCall == [call |-> "none", url |-> <<>>, platform |-> NoPlatform, error |-> <<>>]
NoOutcome == [kind |-> "none"]

\* validateProfile has not been called
ValidateIdle ==
    /\ vProfile = sampleProfile
    /\ vpc = "idle"
    /\ vError = <<>>

\* a new PlatformRegistry, nothing called
RegistryIdle ==
    /\ platforms = <<>>
    /\ gResult = NoCall
    /\ gNew = <<>>

\* applyToJob has not been called
ApplyIdle ==
    /\ aVariant = "none"
    /\ aUrl = <<>>
    /\ aProfile = sampleProfile
    /\ apc = "idle"
    /\ aBrowser = FALSE
    /\ aLog = <<>>
    /\ aPending = NoOutcome
    /\ aOutcome = NoOutcome
    /\ aCalls = 0
    /\ aOpen = 0

\* no call of HumanBehavior is running
HumanIdle ==
    /\ hText = <<>>
    /\ hField = "text"
    /\ hi = 0
    /\ hpc = "idle"
    /\ hEvents = <<>>
    /\ hClick = [made |-> FALSE]

NoProfile == [has |-> {}, skills |-> 0, salaryIsNumber |-> TRUE]

\* no option is being resolved, no apply() is running
StepsIdle ==
    /\ oPrim = "none"
    /\ oTarget = ""
    /\ oDom = <<>>
    /\ oEnd = NoOutcome
    /\ dAdapter = "none"
    /\ dProfile = NoProfile
    /\ dip = 1
    /\ dpc = "idle"
    /\ dLog = <<>>

(***************************************************************************)
(* Bounds                                                                  *)
(***************************************************************************)
MaxOpts == 2
MaxRetriesArg == 4

(***************************************************************************)
(* FuzzyOptionMatcher                                                      *)
(***************************************************************************)
\* JavaScript null, as returned by findBestMatch
NoMatch == "<null>"

\* option values / texts the page can offer ("" is a placeholder option)
Values == {"", "a", "b"}
Texts == {"A", "B"}
KeyStrings == (Values \cup Texts) \ {""}

\* scores Fuse can assign, in tenths: on a tier boundary or beyond the last one
ScoreSet == {2, 4, 6, 7}

MatchableOption == [value : Values, text : Texts, disabled : BOOLEAN]

OptionLists == UNION {[1..n -> MatchableOption] : n \in 0..MaxOpts}

\* variant: the loosest threshold is tried first
ThresholdsLoosestFirst == <<6, 4, 2>>

\* thresholds = [0.2, 0.4, 0.6]
Thresholds == <<2, 4, 6>>

\* variant: disabled options are not filtered out
AllOptions(options) == options

\* options.filter(opt => !opt.disabled)
EnabledOptions(options) == SelectSeq(options, LAMBDA opt : ~opt.disabled)

\* Fuse indexes only non-blank strings; a key matches when its score is
\* within the threshold
KeyMatches(score, s, threshold) == s # "" /\ score[s] <= threshold

\* a key that matched contributes its score, any other contributes 1.0
KeyFactor(score, s, threshold) ==
    IF KeyMatches(score, s, threshold) THEN score[s] ELSE 10

\* Fuse's item score: the product over the matched keys ['value', 'text']
\* (Fuse raises each factor to weight * fieldNorm; with the two keys weighted
\* alike and fields of like length that power keeps the order of the products)
ItemScore(score, opt, threshold) ==
    KeyFactor(score, opt.value, threshold) * KeyFactor(score, opt.text, threshold)

ItemMatches(score, opt, threshold) ==
    KeyMatches(score, opt.value, threshold) \/ KeyMatches(score, opt.text, threshold)

\* index of the first (lowest score, then lowest index) item among idxs
BestIdx(score, list, threshold, idxs) ==
    CHOOSE i \in idxs :
        \A j \in idxs :
            \/ ItemScore(score, list[i], threshold) < ItemScore(score, list[j], threshold)
            \/ /\ ItemScore(score, list[i], threshold) = ItemScore(score, list[j], threshold)
               /\ i <= j

RECURSIVE SortHits(_, _, _, _)
SortHits(score, list, threshold, idxs) ==
    IF idxs = {} THEN <<>>
    ELSE LET b == BestIdx(score, list, threshold, idxs)
         IN <<[item |-> list[b], score |-> ItemScore(score, list[b], threshold)]>>
            \o SortHits(score, list, threshold, idxs \ {b})

\* new Fuse(list, {keys: ['value','text'], threshold, ...}).search(target)
FuseSearch(score, list, threshold) ==
    SortHits(score, list, threshold,
             {i \in DOMAIN list : ItemMatches(score, list[i], threshold)})

\* the threshold loop of findBestMatch from index i on; fallback is the
\* value returned after the loop, warnAbove the threshold above which a
\* hit is logged as weak (7: never)
RECURSIVE Tiers(_, _, _, _, _)
Tiers(score, enabledOptions, i, fallback, warnAbove) ==
    IF i > Len(Thresholds)
    THEN [value |-> fallback, tier |-> 0, warns |-> <<>>]
    ELSE LET results == FuseSearch(score, enabledOptions, Thresholds[i])
         IN IF Len(results) > 0
            THEN [value |-> results[1].item.value,
                  tier |-> i,
                  warns |-> IF Thresholds[i] > warnAbove
                            THEN <<[text |-> results[1].item.text,
                                    threshold |-> Thresholds[i],
                                    score |-> results[1].score]>>
                            ELSE <<>>]
            ELSE Tiers(score, enabledOptions, i + 1, fallback, warnAbove)

\* variant: the search runs over all options, the disabled ones included
findBestMatchSearchesAll(score, options) ==
    LET enabledOptions == EnabledOptions(options)
    IN IF Len(enabledOptions) = 0
       THEN [value |-> NoMatch, tier |-> 0, warns |-> <<>>]
       ELSE Tiers(score, options, 1,
                  IF enabledOptions[1].value # "" THEN enabledOptions[1].value
                  ELSE NoMatch,
                  7)

\* src/utils/matcher.ts: after the loop, enabledOptions[0]?.value || null
findBestMatch(score, options) ==
    LET enabledOptions == EnabledOptions(options)
    IN IF Len(enabledOptions) = 0
       THEN [value |-> NoMatch, tier |-> 0, warns |-> <<>>]
       ELSE Tiers(score, enabledOptions, 1,
                  IF enabledOptions[1].value # "" THEN enabledOptions[1].value
                  ELSE NoMatch,
                  7)

\* the second findBestMatch of the repository: warns above 0.4, then null
findBestMatchWarn(score, options) ==
    LET enabledOptions == EnabledOptions(options)
    IN IF Len(enabledOptions) = 0
       THEN [value |-> NoMatch, tier |-> 0, warns |-> <<>>]
       ELSE Tiers(score, enabledOptions, 1, NoMatch, 4)

MatcherIdle ==
    /\ mOptions = <<>>
    /\ mScore = [s \in KeyStrings |-> 7]
    /\ mpc = "idle"
    /\ mVariant = "none"
    /\ mResult = NoMatch
    /\ mTier = 0
    /\ mWarns = <<>>

InitMatcher ==
    /\ mOptions \in OptionLists
    /\ mScore \in [KeyStrings -> ScoreSet]
    /\ mpc = "idle"
    /\ mVariant = "none"
    /\ mResult = NoMatch
    /\ mTier = 0
    /\ mWarns = <<>>
    /\ stack = <<>>
    /\ outcome = [status |-> "none"]
    /\ watch = <<>>
    /\ pageCount = 0
    /\ ctl = FALSE
    /\ typed = <<>>
    /\ RunIdle
    /\ ValidateIdle /\ RegistryIdle /\ ApplyIdle /\ HumanIdle /\ StepsIdle

\* a call of findBestMatch of src/utils/matcher.ts
MatchCall ==
    /\ mpc = "idle"
    /\ LET r == findBestMatch(mScore, mOptions)
       IN /\ mResult' = r.value
          /\ mTier' = r.tier
          /\ mWarns' = r.warns
    /\ mpc' = "done"
    /\ mVariant' = "matcher.ts"
    /\ UNCHANGED <<mOptions, mScore>>
    /\ UNCHANGED <<rvars, runvars, appvars>>

\* a call of the second findBestMatch
MatchCallWarn ==
    /\ mpc = "idle"
    /\ LET r == findBestMatchWarn(mScore, mOptions)
       IN /\ mResult' = r.value
          /\ mTier' = r.tier
          /\ mWarns' = r.warns
    /\ mpc' = "done"
    /\ mVariant' = "part_001"
    /\ UNCHANGED <<mOptions, mScore>>
    /\ UNCHANGED <<rvars, runvars, appvars>>

NextMatcher == MatchCall \/ MatchCallWarn

SpecMatcher == InitMatcher /\ [][NextMatcher]_vars

(***************************************************************************)
(* RetryExecutor: BasePlatform.retryWithBackoff and the primitives         *)
(***************************************************************************)
\* maxRetries: number = 3
DefaultMaxRetries == 3

\* Math.pow(2, attempt)
RECURSIVE Pow2(_)
Pow2(n) == IF n = 0 THEN 1 ELSE 2 * Pow2(n - 1)

\* variant: linear instead of exponential backoff
DelayMsLinear(attempt) == (attempt + 1) * 1000

\* const delayMs = Math.pow(2, attempt) * 1000
DelayMs(attempt) == Pow2(attempt) * 1000

\* messages of the errors a caller-supplied action throws, its results and
\* the labels it is run under
ErrMsgs == {"e1", "e2"}
ActionResults == {"r1"}
ActionLabels == {"opA", "opB"}

\* the options the page shows when a primitive extracts them, and the
\* score Fuse gives the primitive's target against their keys
DomChoices ==
    { <<>>,
      <<[value |-> "a", text |-> "A", disabled |-> FALSE]>>,
      <<[value |-> "", text |-> "A", disabled |-> FALSE]>>,
      <<[value |-> "b", text |-> "B", disabled |-> TRUE]>> }
DomScore == [s \in KeyStrings |-> IF s \in {"a", "A"} THEN 2 ELSE 7]

\* target values of the option-bearing primitives, as character sequences
Targets == {<<"s", "t">>, <<"s", "t", "a">>, <<"s", "t", "a", "n">>}

Min(a, b) == IF a < b THEN a ELSE b

\* variant: the whole target is typed into the typeahead
SearchTermWhole(targetValue) == targetValue

\* targetValue.substring(0, Math.min(3, targetValue.length))
SearchTerm(targetValue) == SubSeq(targetValue, 1, Min(3, Len(targetValue)))

NoArgs == [sel |-> "", clearFirst |-> FALSE, date |-> FALSE,
           spinner |-> FALSE, target |-> FALSE,
           value |-> <<>>, text |-> <<>>, required |-> FALSE]

Page(op) == [k |-> "page", op |-> op, prim |-> "", args |-> NoArgs]
Delay == [k |-> "delay", op |-> "randomDelay", prim |-> "", args |-> NoArgs]
Invoke(prim, args) == [k |-> "call", op |-> "", prim |-> prim, args |-> args]

SpinnerWait == [k |-> "try", op |-> "waitForSelector-hidden", prim |-> "", args |-> NoArgs]
Match == [k |-> "match", op |-> "findBestMatch", prim |-> "", args |-> NoArgs]

\* variant: the options are extracted before the results container is
\* waited for
selectSmartExtractsFirst(args) ==
    <<Invoke("click", [NoArgs EXCEPT !.sel = "input"]),
      Delay,
      Invoke("type", [NoArgs EXCEPT !.sel = "input", !.clearFirst = TRUE,
                                    !.text = SearchTerm(args.value)]),
      Page("$$eval"),
      Page("waitForSelector")>>
    \o (IF args.spinner THEN <<SpinnerWait>> ELSE <<>>)
    \o <<Delay, Match, Invoke("click", [NoArgs EXCEPT !.sel = "option"])>>

\* variant: the search term is typed without clearing the input first
selectSmartAccumulates(args) ==
    <<Invoke("click", [NoArgs EXCEPT !.sel = "input"]),
      Delay,
      Invoke("type", [NoArgs EXCEPT !.sel = "input",
                                    !.text = SearchTerm(args.value)]),
      Page("waitForSelector")>>
    \o (IF args.spinner THEN <<SpinnerWait>> ELSE <<>>)
    \o <<Delay, Page("$$eval"), Match,
         Invoke("click", [NoArgs EXCEPT !.sel = "option"])>>

\* the action of selectSmart
selectSmart(args) ==
    <<Invoke("click", [NoArgs EXCEPT !.sel = "input"]),
      Delay,
      Invoke("type", [NoArgs EXCEPT !.sel = "input", !.clearFirst = TRUE,
                                    !.text = SearchTerm(args.value)]),
      Page("waitForSelector")>>
    \o (IF args.spinner THEN <<SpinnerWait>> ELSE <<>>)
    \o <<Delay, Page("$$eval"), Match,
         Invoke("click", [NoArgs EXCEPT !.sel = "option"])>>

\* the action each primitive hands to retryWithBackoff, as its sequence of
\* awaited steps
Body(prim, args) ==
    CASE prim = "action" -> <<[k |-> "op", op |-> "action", prim |-> "", args |-> NoArgs]>>
      [] prim = "click" ->
            <<Page("waitForSelector"), Page("hover"), Delay, Page("click")>>
      [] prim = "type" ->
            <<Page("waitForSelector")>>
            \o (IF args.clearFirst THEN <<Page("fill-empty")>> ELSE <<>>)
            \o (IF args.date THEN <<Page("fill"), Delay>>
                ELSE <<Page("focus"), Page("typeWithVariableSpeed")>>)
      [] prim = "select" ->
            <<Page("waitForSelector"), Page("evaluate"),
              Match,
              Page("selectOption"), Delay>>
      [] prim = "selectSmart" -> selectSmart(args)
      [] prim = "uploadFile" ->
            <<Page("waitForSelector"), Page("setInputFiles"), Delay>>
      [] prim = "check" ->
            <<Page("$$eval"),
              Match,
              Invoke("click", [NoArgs EXCEPT !.sel = "checkbox"])>>
      [] prim = "toggle" ->
            <<Page("waitForSelector"),
              [k |-> "evalToggle", op |-> "evaluate", prim |-> "click",
               args |-> [NoArgs EXCEPT !.sel = "toggle"]]>>
      [] prim = "toggleSwitch" ->
            <<[k |-> "evalToggle", op |-> "evaluate", prim |-> "click",
               args |-> [NoArgs EXCEPT !.sel = "toggle"]],
              Delay>>

\* the text an adapter types into a field (a profile value)
FieldText == <<"J", "o">>

Primitives == {"click", "type", "select", "selectSmart", "uploadFile", "check", "toggle"}

\* the argument combinations the adapters use for each primitive
ArgsOf(prim) ==
    CASE prim = "type" ->
            {[NoArgs EXCEPT !.sel = "field", !.date = d, !.text = FieldText] :
                d \in BOOLEAN}
      [] prim = "selectSmart" ->
            {[NoArgs EXCEPT !.sel = "input", !.spinner = s, !.value = v] :
                s \in BOOLEAN, v \in Targets}
      [] prim \in {"toggle", "toggleSwitch"} ->
            {[NoArgs EXCEPT !.sel = "toggle", !.target = t] : t \in BOOLEAN}
      [] prim \in {"select", "check"} ->
            {[NoArgs EXCEPT !.sel = "field", !.value = <<"s", "t">>, !.required = r] :
                r \in BOOLEAN}
      [] OTHER -> {[NoArgs EXCEPT !.sel = "field"]}

\* actionName: `click ${selector}` etc.
LabelOf(prim, args) == <<prim, args.sel>>

\* entry of retryWithBackoff(action, actionName, maxRetries): the state of
\* one call, at its first attempt (or past the loop when maxRetries < 1)
NewFrame(prim, args, label, maxRetries) ==
    [prim |-> prim, args |-> args, label |-> label, max |-> maxRetries,
     attempt |-> 0, ip |-> 1,
     lastError |-> <<>>,
     errs |-> <<>>,
     log |-> IF maxRetries > 0 THEN <<[e |-> "call", n |-> 1, delay |-> 0]>> ELSE <<>>,
     trace |-> <<>>,
     result |-> "",
     state |-> IF maxRetries > 0 THEN "run" ELSE "exhausted"]

\* variant: the loop test admits one attempt too many
LoopNextOneMore(f) ==
    IF f.attempt + 1 <= f.max
    THEN [f EXCEPT !.attempt = @ + 1, !.ip = 1, !.state = "run", !.trace = <<>>,
                   !.log = Append(@, [e |-> "call", n |-> f.attempt + 2, delay |-> 0])]
    ELSE [f EXCEPT !.attempt = @ + 1, !.state = "exhausted"]

\* variant: the next attempt resumes at the step that failed
LoopNextResumes(f) ==
    IF f.attempt + 1 < f.max
    THEN [f EXCEPT !.attempt = @ + 1, !.state = "run", !.trace = <<>>,
                   !.log = Append(@, [e |-> "call", n |-> f.attempt + 2, delay |-> 0])]
    ELSE [f EXCEPT !.attempt = @ + 1, !.state = "exhausted"]

\* attempt++ and the loop test attempt < maxRetries: run the action again
\* or fall out of the loop to the final throw
LoopNext(f) ==
    IF f.attempt + 1 < f.max
    THEN [f EXCEPT !.attempt = @ + 1, !.ip = 1, !.state = "run", !.trace = <<>>,
                   !.log = Append(@, [e |-> "call", n |-> f.attempt + 2, delay |-> 0])]
    ELSE [f EXCEPT !.attempt = @ + 1, !.state = "exhausted"]

\* variant: only the first error is remembered
CatchKeepsFirst(f, msg) ==
    LET g == [f EXCEPT !.lastError = IF @ = <<>> THEN msg ELSE @,
                       !.errs = Append(@, msg)]
    IN IF f.attempt < f.max - 1
       THEN [g EXCEPT !.log = @ \o <<[e |-> "warn", n |-> f.attempt + 1, delay |-> DelayMs(f.attempt)],
                                      [e |-> "sleep", n |-> f.attempt + 1, delay |-> DelayMs(f.attempt)]>>,
                      !.state = "sleep"]
       ELSE LoopNext(g)

\* variant: the warning is logged after the sleep instead of before it
CatchSleepsThenWarns(f, msg) ==
    LET g == [f EXCEPT !.lastError = msg, !.errs = Append(@, msg)]
    IN IF f.attempt < f.max - 1
       THEN [g EXCEPT !.log = @ \o <<[e |-> "sleep", n |-> f.attempt + 1, delay |-> DelayMs(f.attempt)],
                                      [e |-> "warn", n |-> f.attempt + 1, delay |-> DelayMs(f.attempt)]>>,
                      !.state = "sleep"]
       ELSE LoopNext(g)

\* the catch block of retryWithBackoff: record the error, then warn and
\* sleep unless this was the last attempt
Catch(f, msg) ==
    IF f.attempt < f.max - 1
    THEN [f EXCEPT !.lastError = msg,
                   !.errs = Append(@, msg),
                   !.log = @ \o <<[e |-> "warn", n |-> f.attempt + 1, delay |-> DelayMs(f.attempt)],
                                  [e |-> "sleep", n |-> f.attempt + 1, delay |-> DelayMs(f.attempt)]>>,
                   !.state = "sleep"]
    ELSE LoopNext([f EXCEPT !.lastError = msg, !.errs = Append(@, msg)])

\* `Failed after ${maxRetries} retries: ${actionName} - ${lastError?.message}`
FailedMessage(f) ==
    <<"Failed after", ToString(f.max), "retries:">> \o f.label \o <<"-">>
    \o (IF f.lastError = <<>> THEN <<"undefined">> ELSE f.lastError)

Top == stack[Len(stack)]
CurStep == Body(Top.prim, Top.args)[Top.ip]

\* what a step is called in the trace of an attempt
OpName(step) == <<step.op, "">>
CallName(call) == <<call.prim, call.args.sel>>

\* the step f is at has completed / has thrown, under the name given
StepDone(f, name) ==
    [f EXCEPT !.ip = @ + 1, !.trace = Append(@, [name |-> name, r |-> "ok"])]
StepFailed(f, name, msg) ==
    Catch([f EXCEPT !.trace = Append(@, [name |-> name, r |-> "failed"])], msg)

\* variant: a failed spinner wait fails the attempt
SwallowRethrows(f, name) == StepFailed(f, name, <<"TimeoutError">>)

\* try { await waitForSelector(spinner, hidden) } catch { }: go on
Swallow(f, name) ==
    [f EXCEPT !.ip = @ + 1, !.trace = Append(@, [name |-> name, r |-> "swallowed"])]

\* `No match found for "${targetValue}" in ${selector}` (select, check) or
\* `... in typeahead ${inputSelector}` (selectSmart)
NoMatchMessage(f) ==
    <<"No match found for">> \o f.args.value
    \o <<IF f.prim = "selectSmart" THEN "in typeahead" ELSE "in", f.args.sel>>
Running ==
    /\ Len(stack) > 0
    /\ Top.state = "run"
    /\ Top.ip <= Len(Body(Top.prim, Top.args))
SetTop(f) == [stack EXCEPT ![Len(stack)] = f]
Path == [i \in 1..Len(stack) |-> <<stack[i].prim, stack[i].ip>>]
Counted == IF Path = watch THEN pageCount + 1 ELSE pageCount

\* the page operations of a call of prim whose attempts are counted: the
\* first of its own and the first of each primitive it calls
PageSteps(prim, args) ==
    {i \in DOMAIN Body(prim, args) : Body(prim, args)[i].k \in {"page", "try", "evalToggle"}}
CallSteps(prim, args) ==
    {i \in DOMAIN Body(prim, args) : Body(prim, args)[i].k \in {"call", "evalToggle"}}
First(S) == {i \in S : \A j \in S : i <= j}
PathsOf(prim, args) ==
    {<< <<prim, i>> >> : i \in First(PageSteps(prim, args))}
    \cup UNION {{<< <<prim, i>>, <<Body(prim, args)[i].prim, j>> >> :
                    j \in First(PageSteps(Body(prim, args)[i].prim, Body(prim, args)[i].args))} :
                 i \in CallSteps(prim, args)}

InitRetry ==
    /\ stack = <<>>
    /\ outcome = [status |-> "none"]
    /\ watch = <<>>
    /\ pageCount = 0
    /\ ctl = FALSE
    /\ typed = <<>>

\* the engine's retry executor, matcher and run() before any call
EngineIdle == MatcherIdle /\ InitRetry /\ RunIdle

Init == EngineIdle /\ ValidateIdle /\ RegistryIdle /\ ApplyIdle /\ HumanIdle /\ StepsIdle

\* a direct call retryWithBackoff(action, actionName, maxRetries)
CallRetry ==
    /\ stack = <<>> /\ outcome.status = "none"
    /\ \E n \in 0..MaxRetriesArg, label \in ActionLabels :
         stack' = <<NewFrame("action", NoArgs, <<label>>, n)>>
    /\ UNCHANGED <<outcome, watch, pageCount, ctl>> /\ UNCHANGED typed /\ UNCHANGED <<mvars, runvars, appvars>>

\* a call of GlobexAdapter.toggleSwitch, the control in either state
CallToggleSwitch ==
    /\ stack = <<>> /\ outcome.status = "none"
    /\ \E args \in ArgsOf("toggleSwitch") :
         /\ stack' = <<NewFrame("toggleSwitch", args, LabelOf("toggleSwitch", args),
                                DefaultMaxRetries)>>
         /\ watch' \in PathsOf("toggleSwitch", args)
    /\ ctl' \in BOOLEAN
    /\ UNCHANGED <<outcome, pageCount>> /\ UNCHANGED typed /\ UNCHANGED <<mvars, runvars, appvars>>

\* a call of one of the primitives click, type, select, ...; the toggled
\* control is in either state when toggle is called
CallPrimitive ==
    /\ stack = <<>> /\ outcome.status = "none"
    /\ \E prim \in Primitives : \E args \in ArgsOf(prim) :
         /\ stack' = <<NewFrame(prim, args, LabelOf(prim, args), DefaultMaxRetries)>>
         /\ watch' \in PathsOf(prim, args)
         /\ ctl' \in IF prim = "toggle" THEN BOOLEAN ELSE {ctl}
    /\ UNCHANGED <<outcome, pageCount>> /\ UNCHANGED typed /\ UNCHANGED <<mvars, runvars, appvars>>

\* return await action(): the caller's action resolves
ActionOk ==
    /\ Running /\ CurStep.k = "op"
    /\ \E r \in ActionResults :
         stack' = SetTop([StepDone(Top, OpName(CurStep)) EXCEPT !.result = r])
    /\ UNCHANGED <<outcome, watch, pageCount, ctl>> /\ UNCHANGED typed /\ UNCHANGED <<mvars, runvars, appvars>>

\* the caller's action rejects
ActionFail ==
    /\ Running /\ CurStep.k = "op"
    /\ \E m \in ErrMsgs : stack' = SetTop(StepFailed(Top, OpName(CurStep), <<m>>))
    /\ UNCHANGED <<outcome, watch, pageCount, ctl>> /\ UNCHANGED typed /\ UNCHANGED <<mvars, runvars, appvars>>

\* a page operation of a primitive succeeds; the click on the toggled
\* control flips it
PageOk ==
    /\ Running /\ CurStep.k = "page"
    /\ stack' = SetTop(StepDone(Top, OpName(CurStep)))
    /\ pageCount' = Counted
    /\ ctl' = IF Top.prim = "click" /\ Top.args.sel = "toggle" /\ CurStep.op = "click"
              THEN ~ctl ELSE ctl
    /\ typed' = CASE CurStep.op = "fill-empty" -> <<>>
                [] CurStep.op = "fill" -> Top.args.text
                [] CurStep.op = "typeWithVariableSpeed" -> typed \o Top.args.text
                [] OTHER -> typed
    /\ UNCHANGED <<outcome, watch>> /\ UNCHANGED <<mvars, runvars, appvars>>

\* a page operation throws (timeout, detached element, ...);
\* typeWithVariableSpeed has typed some of the characters by then
PageFail ==
    /\ Running /\ CurStep.k = "page"
    /\ stack' = SetTop(StepFailed(Top, OpName(CurStep), <<"TimeoutError">>))
    /\ pageCount' = Counted
    /\ typed' \in IF CurStep.op = "typeWithVariableSpeed"
                  THEN {typed \o SubSeq(Top.args.text, 1, k) : k \in 0..Len(Top.args.text)}
                  ELSE {typed}
    /\ UNCHANGED <<outcome, watch, ctl>> /\ UNCHANGED <<mvars, runvars, appvars>>

\* humanBehavior.randomDelay()
DelayStep ==
    /\ Running /\ CurStep.k = "delay"
    /\ stack' = SetTop(StepDone(Top, OpName(CurStep)))
    /\ UNCHANGED <<outcome, watch, pageCount, ctl>> /\ UNCHANGED typed /\ UNCHANGED <<mvars, runvars, appvars>>

\* the spinner wait of selectSmart: the spinner is hidden in time
TryOk ==
    /\ Running /\ CurStep.k = "try"
    /\ stack' = SetTop(StepDone(Top, OpName(CurStep)))
    /\ pageCount' = Counted
    /\ UNCHANGED <<outcome, watch, ctl>> /\ UNCHANGED typed /\ UNCHANGED <<mvars, runvars, appvars>>

\* the spinner wait of selectSmart throws (not found, timeout)
TryFail ==
    /\ Running /\ CurStep.k = "try"
    /\ stack' = SetTop(Swallow(Top, OpName(CurStep)))
    /\ pageCount' = Counted
    /\ UNCHANGED <<outcome, watch, ctl>> /\ UNCHANGED typed /\ UNCHANGED <<mvars, runvars, appvars>>

\* findBestMatch on the extracted options, then if (!matchedValue) throw
MatchStep ==
    /\ Running /\ CurStep.k = "match"
    /\ \E dom \in DomChoices :
         LET matchedValue == findBestMatch(DomScore, dom).value
         IN stack' = IF matchedValue \in {NoMatch, ""}
                     THEN SetTop(StepFailed(Top, OpName(CurStep), NoMatchMessage(Top)))
                     ELSE SetTop(StepDone(Top, OpName(CurStep)))
    /\ UNCHANGED <<outcome, watch, pageCount, ctl>> /\ UNCHANGED typed /\ UNCHANGED <<mvars, runvars, appvars>>

\* a primitive calls another primitive: a nested retryWithBackoff
NestedCall ==
    /\ Running /\ CurStep.k = "call"
    /\ stack' = Append(stack, NewFrame(CurStep.prim, CurStep.args,
                                       LabelOf(CurStep.prim, CurStep.args),
                                       DefaultMaxRetries))
    /\ UNCHANGED <<outcome, watch, pageCount, ctl>> /\ UNCHANGED typed /\ UNCHANGED <<mvars, runvars, appvars>>

\* variant: the control is clicked whatever its state
NeedsClickAlways(currentState, targetState) == TRUE

\* if (currentState !== targetState)
NeedsClick(currentState, targetState) == currentState # targetState

\* the state read by element.evaluate, as recorded in the trace
Read(currentState) == IF currentState THEN "true" ELSE "false"

\* toggle, toggleSwitch: read the current state; call click only if it
\* differs from the target, else go on after the if statement
EvalToggle ==
    /\ Running /\ CurStep.k = "evalToggle"
    /\ pageCount' = Counted
    /\ LET f == [Top EXCEPT !.trace = Append(@, [name |-> OpName(CurStep),
                                                 r |-> Read(ctl)])]
       IN stack' = IF NeedsClick(ctl, Top.args.target)
                   THEN Append(SetTop(f),
                               NewFrame(CurStep.prim, CurStep.args,
                                        LabelOf(CurStep.prim, CurStep.args),
                                        DefaultMaxRetries))
                   ELSE SetTop([f EXCEPT !.ip = Len(Body(Top.prim, Top.args)) + 1])
    /\ UNCHANGED <<outcome, watch, ctl>> /\ UNCHANGED typed /\ UNCHANGED <<mvars, runvars, appvars>>

\* page.waitForTimeout(delayMs) is over: next iteration of the for loop
Wake ==
    /\ Len(stack) > 0 /\ Top.state = "sleep"
    /\ stack' = SetTop(LoopNext(Top))
    /\ UNCHANGED <<outcome, watch, pageCount, ctl>> /\ UNCHANGED typed /\ UNCHANGED <<mvars, runvars, appvars>>

\* the action ran to its end: retryWithBackoff returns its result
Return ==
    /\ Len(stack) > 0 /\ Top.state = "run"
    /\ Top.ip > Len(Body(Top.prim, Top.args))
    /\ IF Len(stack) = 1
       THEN /\ outcome' = [status |-> "ok", value |-> Top.result, frame |-> Top]
            /\ stack' = <<>>
       ELSE /\ stack' = [SubSeq(stack, 1, Len(stack) - 1) EXCEPT
                            ![Len(stack) - 1] = StepDone(@, CallName(Top))]
            /\ UNCHANGED outcome
    /\ UNCHANGED <<watch, pageCount, ctl>> /\ UNCHANGED typed /\ UNCHANGED <<mvars, runvars, appvars>>

\* the loop ended without a success: throw new Error(`Failed after ...`),
\* caught by the enclosing retryWithBackoff if there is one
Throw ==
    /\ Len(stack) > 0 /\ Top.state = "exhausted"
    /\ IF Len(stack) = 1
       THEN /\ outcome' = [status |-> "failed", message |-> FailedMessage(Top), frame |-> Top]
            /\ stack' = <<>>
       ELSE /\ stack' = [SubSeq(stack, 1, Len(stack) - 1) EXCEPT
                            ![Len(stack) - 1] =
                                StepFailed(@, CallName(Top), FailedMessage(Top))]
            /\ UNCHANGED outcome
    /\ UNCHANGED <<watch, pageCount, ctl>> /\ UNCHANGED typed /\ UNCHANGED <<mvars, runvars, appvars>>

Next ==
    \/ CallRetry \/ CallPrimitive \/ CallToggleSwitch
    \/ ActionOk \/ ActionFail
    \/ PageOk \/ PageFail \/ DelayStep \/ TryOk \/ TryFail \/ MatchStep
    \/ NestedCall \/ EvalToggle
    \/ Wake \/ Return \/ Throw

Spec == Init /\ [][Next]_vars

(***************************************************************************)
(* Properties of the retry executor                                        *)
(***************************************************************************)
\* the outermost call has ended; F is its frame at the end
Fin == outcome.status # "none"
F == outcome.frame
CallEvents(log) == SelectSeq(log, LAMBDA ev : ev.e = "call")
WarnEvents(log) == SelectSeq(log, LAMBDA ev : ev.e = "warn")
SleepEvents(log) == SelectSeq(log, LAMBDA ev : ev.e = "sleep")
SleepsOf(log) == [i \in 1..Len(SleepEvents(log)) |-> SleepEvents(log)[i].delay]
RECURSIVE SumSeq(_)
SumSeq(q) == IF q = <<>> THEN 0 ELSE Head(q) + SumSeq(Tail(q))

\* C1: with maxAttempts N >= 1 and an action failing on every attempt,
\* the action is invoked exactly N times, there are exactly N-1 sleeps, the
\* sleep after failed attempt i (0-indexed) lasts 1000*2^i ms (in total
\* 1000*(2^(N-1) - 1)), nothing is slept after the last failure, and the
\* call fails.
C1_AllFailedAttemptsAndSleeps ==
    (Fin /\ F.max >= 1 /\ Len(F.errs) = F.max) =>
        /\ outcome.status = "failed"
        /\ Len(CallEvents(F.log)) = F.max
        /\ SleepsOf(F.log) = [i \in 1..(F.max - 1) |-> 1000 * 2^(i - 1)]
        /\ SumSeq(SleepsOf(F.log)) = 1000 * (2^(F.max - 1) - 1)
        /\ F.log[Len(F.log)].e = "call"

C1_Witness ==
    /\ Fin /\ F.prim = "action" /\ F.max >= 4
    /\ Len(F.errs) = F.max /\ outcome.status = "failed"

\* C2: when the action first succeeds on attempt k <= N it has been
\* invoked exactly k times, its result is returned, and after the success
\* nothing is slept and the action is not invoked again.
C2_SuccessEndsTheLoop ==
    (Fin /\ outcome.status = "ok") =>
        LET k == Len(F.errs) + 1
        IN /\ k <= F.max
           /\ Len(CallEvents(F.log)) = k
           /\ Len(SleepEvents(F.log)) = k - 1
           /\ F.log[Len(F.log)] = [e |-> "call", n |-> k, delay |-> 0]
           /\ F.prim = "action" => outcome.value \in ActionResults
           /\ stack = <<>>

C2_Witness ==
    /\ Fin /\ outcome.status = "ok" /\ F.prim = "action"
    /\ Len(F.errs) = 2 /\ F.max >= 3

\* C3: when every attempt failed, the error raised names the action label
\* and carries the message of the last attempt's error.
C3_ErrorNamesLabelAndLastError ==
    (Fin /\ outcome.status = "failed" /\ F.max >= 1) =>
        outcome.message =
            <<"Failed after", ToString(F.max), "retries:">> \o F.label \o <<"-">>
            \o F.errs[Len(F.errs)]

C3_Witness ==
    /\ Fin /\ outcome.status = "failed" /\ F.prim = "action"
    /\ Len(F.errs) >= 3
    /\ F.errs[1] # F.errs[Len(F.errs)]
    /\ F.errs[2] # F.errs[Len(F.errs)]

\* C4: during one call of a primitive no page operation is attempted more
\* than maxAttempts (3) times.
C4_PageActionWithinMaxAttempts == pageCount <= DefaultMaxRetries

\* C5: under the default policy (3 attempts) an action failing on every
\* attempt is followed by sleeps of 1 s, 2 s and 4 s.
C5_DefaultDelays ==
    (Fin /\ F.max = DefaultMaxRetries /\ Len(F.errs) = F.max) =>
        SleepsOf(F.log) = <<1000, 2000, 4000>>

\* C6: exactly one warning per failed attempt 1..N-1, logged before that
\* attempt's sleep and naming the attempt number and the sleep's delay; no
\* warning for the final failed attempt N nor for a successful attempt.
C6_OneWarningPerRetriedFailure ==
    (Fin /\ F.max >= 1) =>
        /\ Len(WarnEvents(F.log)) =
              IF outcome.status = "failed" THEN F.max - 1 ELSE Len(F.errs)
        /\ \A i \in 1..Len(WarnEvents(F.log)) :
              WarnEvents(F.log)[i] = [e |-> "warn", n |-> i, delay |-> 1000 * 2^(i - 1)]
        /\ \A p \in DOMAIN F.log :
              F.log[p].e = "warn" =>
                  /\ p > 1 /\ F.log[p - 1] = [e |-> "call", n |-> F.log[p].n, delay |-> 0]
                  /\ p < Len(F.log)
                  /\ F.log[p + 1] = [e |-> "sleep", n |-> F.log[p].n, delay |-> F.log[p].delay]

C6_Witness ==
    /\ Fin /\ outcome.status = "failed" /\ F.prim = "action" /\ F.max >= 3

(***************************************************************************)
(* Properties of the matcher                                               *)
(***************************************************************************)
\* the enabled options one of whose non-blank keys scores within threshold t
EnabledHits(t) ==
    {i \in DOMAIN mOptions :
        /\ ~mOptions[i].disabled
        /\ \/ mOptions[i].value # "" /\ mScore[mOptions[i].value] <= t
           \/ mOptions[i].text # "" /\ mScore[mOptions[i].text] <= t}
TierThreshold == <<2, 4, 6>>

\* C7: when no enabled option clears the loosest threshold (0.6) the
\* result is NoMatch, even when enabled options exist.
C7_NoFallbackToArbitraryOption ==
    (mpc = "done" /\ EnabledHits(6) = {}) => mResult = NoMatch

\* C8: the result is NoMatch when the option list is empty or every option
\* is disabled, whatever the target.
C8_NoEnabledOptionIsNoMatch ==
    (mpc = "done" /\ \A i \in DOMAIN mOptions : mOptions[i].disabled) =>
        mResult = NoMatch

C8_Witness ==
    /\ mpc = "done" /\ Len(mOptions) >= 1
    /\ \A i \in DOMAIN mOptions : mOptions[i].disabled
    /\ \E i \in DOMAIN mOptions : mOptions[i].value # "" /\ mScore[mOptions[i].value] <= 2

\* C9: the thresholds are tried in the order 0.2, 0.4, 0.6; the result is
\* the value of the best-scoring enabled candidate at the first threshold
\* that has a hit, and a looser threshold is used only when every stricter
\* one had none.
C9_StrictestTierWithHitDecides ==
    mpc = "done" =>
        \A i \in 1..3 :
            (/\ EnabledHits(TierThreshold[i]) # {}
             /\ \A j \in 1..(i - 1) : EnabledHits(TierThreshold[j]) = {}) =>
                /\ mTier = i
                /\ \E k \in EnabledHits(TierThreshold[i]) :
                      /\ mResult = mOptions[k].value
                      /\ \A l \in EnabledHits(TierThreshold[i]) :
                            ItemScore(mScore, mOptions[k], TierThreshold[i])
                               <= ItemScore(mScore, mOptions[l], TierThreshold[i])

C9_Witness ==
    /\ mpc = "done" /\ mTier = 2
    /\ EnabledHits(2) = {} /\ Cardinality(EnabledHits(4)) = 2
    /\ mResult = mOptions[2].value /\ mOptions[1].value # mOptions[2].value

\* C10: a weak-match warning is emitted exactly when the accepted match
\* came from the loose tier (0.6, after 0.2 and 0.4 had no hit).
C10_WarnsExactlyOnLooseTier ==
    mpc = "done" =>
        Len(mWarns) = IF EnabledHits(4) = {} /\ EnabledHits(6) # {} THEN 1 ELSE 0

\* C11: whatever findBestMatch returns is NoMatch or the value of an option
\* of the input list that is not disabled; a disabled option is never
\* selected, even when it is the closest to the target.
C11_ResultIsAnEnabledOption ==
    mpc = "done" =>
        \/ mResult = NoMatch
        \/ \E i \in DOMAIN mOptions :
              ~mOptions[i].disabled /\ mOptions[i].value = mResult

C11_Witness ==
    /\ mpc = "done" /\ Len(mOptions) = 2
    /\ mOptions[1].disabled /\ ~mOptions[2].disabled
    /\ mOptions[1].value # "" /\ mScore[mOptions[1].value] = 2
    /\ mOptions[2].value # "" /\ mScore[mOptions[2].value] = 4
    /\ mScore[mOptions[1].text] = 2 /\ mScore[mOptions[2].text] = 4
    /\ mResult = mOptions[2].value

(***************************************************************************)
(* Properties of selectSmart, select and check                             *)
(***************************************************************************)
\* every retryWithBackoff frame: the active ones and the outermost one at
\* its end
Frames == {stack[i] : i \in DOMAIN stack} \cup (IF Fin THEN {F} ELSE {})
SmartFrames == {f \in Frames : f.prim = "selectSmart"}
HiddenWait == <<"waitForSelector-hidden", "">>
ReadingDelay == <<"randomDelay", "">>
ContainerWait == <<"waitForSelector", "">>
Names(trace) == [i \in DOMAIN trace |-> trace[i].name]
Has(q, x) == \E i \in DOMAIN q : q[i] = x

\* C12: in selectSmart with a spinner selector, the wait for the spinner to
\* become hidden never fails the attempt: after it, whatever its outcome,
\* the attempt is still running at the reading delay that follows, no error
\* has been recorded for this attempt and no further call of the action has
\* been made.
C12_SpinnerWaitFailureIsSwallowed ==
    \A f \in SmartFrames : \A i \in DOMAIN f.trace :
        f.trace[i].name = HiddenWait =>
            /\ f.args.spinner
            /\ f.trace[i].r \in {"ok", "swallowed"}
            /\ i < Len(f.trace) => f.trace[i + 1].name = ReadingDelay
            /\ i = Len(f.trace) =>
                  /\ f.state = "run" /\ f.ip = i + 1
                  /\ Body(f.prim, f.args)[f.ip] = Delay
                  /\ Len(f.errs) = f.attempt
                  /\ Len(CallEvents(f.log)) = f.attempt + 1

\* a selectSmart that succeeded at its first attempt although the spinner
\* wait failed
C12_Witness ==
    /\ Fin /\ outcome.status = "ok" /\ F.prim = "selectSmart"
    /\ F.attempt = 0 /\ F.errs = <<>>
    /\ Has(F.trace, [name |-> HiddenWait, r |-> "swallowed"])
    /\ F.trace[Len(F.trace)] = [name |-> <<"click", "option">>, r |-> "ok"]

\* the steps of one selectSmart attempt, in the order of the claim
StepsInOrder(spinner) ==
    <<<<"click", "input">>, ReadingDelay, <<"type", "input">>, ContainerWait>>
    \o (IF spinner THEN <<HiddenWait>> ELSE <<>>)
    \o <<ReadingDelay, <<"$$eval", "">>, <<"findBestMatch", "">>, <<"click", "option">>>>

\* C13: the steps a selectSmart attempt has taken are always an initial
\* part of: click input, reading delay, type search term, results container
\* visible, spinner wait (when a spinner selector was supplied), reading
\* delay, extract options, match, click option; only the last step taken
\* can have failed, and a nested click or type is running only when it is
\* the next step of that order.
C13_StepsInOrder ==
    \A n \in DOMAIN stack :
        LET f == stack[n]
            order == StepsInOrder(f.args.spinner)
        IN f.prim = "selectSmart" =>
              /\ Len(f.trace) <= Len(order)
              /\ \A i \in DOMAIN f.trace :
                    /\ f.trace[i].name = order[i]
                    /\ i < Len(f.trace) => f.trace[i].r # "failed"
              /\ n < Len(stack) =>
                    /\ Len(f.trace) < Len(order)
                    /\ <<stack[n + 1].prim, stack[n + 1].args.sel>> = order[Len(f.trace) + 1]

\* the option is being clicked in a selectSmart with a spinner selector
C13_Witness ==
    /\ Len(stack) = 2 /\ stack[1].prim = "selectSmart" /\ stack[1].args.spinner
    /\ stack[2].prim = "click" /\ stack[2].args.sel = "option"
    /\ stack[2].ip = 4
    /\ Names(stack[1].trace) = SubSeq(StepsInOrder(TRUE), 1, 8)

\* C14: when the type call of selectSmart has typed its text, the input
\* holds exactly the first min(3, length) characters of the target value,
\* and it holds them until the selectSmart attempt is over.
C14_TypesFirstThreeCharacters ==
    \A n \in DOMAIN stack :
        LET f == stack[n]
            k == IF Len(f.args.value) < 3 THEN Len(f.args.value) ELSE 3
            isPrefix == /\ Len(typed) = k
                        /\ \A i \in 1..k : typed[i] = f.args.value[i]
        IN f.prim = "selectSmart" =>
              /\ (Len(f.trace) >= 3 /\ f.state = "run") => isPrefix
              /\ (/\ n < Len(stack) /\ stack[n + 1].prim = "type"
                  /\ stack[n + 1].state = "run"
                  /\ stack[n + 1].ip > Len(Body("type", stack[n + 1].args))) => isPrefix

\* a two-character target has been typed, after a first type attempt that
\* failed part-way
C14_Witness ==
    /\ Len(stack) = 2 /\ stack[1].prim = "selectSmart"
    /\ stack[1].args.value = <<"s", "t">>
    /\ stack[2].prim = "type" /\ stack[2].attempt = 1
    /\ stack[2].ip > Len(Body("type", stack[2].args))
    /\ typed = <<"s", "t">>

\* a four-character target: three characters are in the input at the end
C14_WitnessLong ==
    /\ Fin /\ outcome.status = "ok" /\ F.prim = "selectSmart"
    /\ F.args.value = <<"s", "t", "a", "n">>
    /\ typed = <<"s", "t", "a">>

\* C15: when the wait for the results container fails in a selectSmart
\* attempt, nothing is extracted, matched or clicked in that attempt, the
\* failure (a timeout) goes to the retry loop of selectSmart, which sleeps or
\* is exhausted after max attempts; and every attempt of selectSmart starts
\* at the click on the input.
C15_ContainerNotVisibleFailsAttempt ==
    \A f \in SmartFrames :
        /\ f.state = "run" => f.ip = Len(f.trace) + 1
        /\ Has(f.trace, [name |-> ContainerWait, r |-> "failed"]) =>
              /\ f.trace[Len(f.trace)] = [name |-> ContainerWait, r |-> "failed"]
              /\ ~Has(Names(f.trace), <<"$$eval", "">>)
              /\ ~Has(Names(f.trace), <<"findBestMatch", "">>)
              /\ ~Has(Names(f.trace), <<"click", "option">>)
              /\ f.state \in {"sleep", "exhausted"}
              /\ f.lastError = <<"TimeoutError">>
              /\ Len(f.errs) = Len(CallEvents(f.log))
              /\ f.state = "sleep" <=> Len(f.errs) < f.max
              /\ f.state = "exhausted" => f.attempt = f.max

\* the results container never became visible: three attempts, all failed
\* at that wait
C15_Witness ==
    /\ Fin /\ outcome.status = "failed" /\ F.prim = "selectSmart"
    /\ F.errs = <<<<"TimeoutError">>, <<"TimeoutError">>, <<"TimeoutError">>>>
    /\ F.trace[Len(F.trace)] = [name |-> ContainerWait, r |-> "failed"]
    /\ Len(CallEvents(F.log)) = 3

\* a retry after the results container was not visible: the new attempt is
\* at the click on the input
C15_WitnessRetry ==
    /\ Len(stack) = 1 /\ stack[1].prim = "selectSmart"
    /\ stack[1].errs = <<<<"TimeoutError">>>> /\ stack[1].state = "run"
    /\ stack[1].ip = 1 /\ stack[1].trace = <<>>

\* the error of an attempt in which findBestMatch found nothing
IsNoMatch(f, msg) == msg = NoMatchMessage(f)
MatchFrames == {f \in Frames : f.prim \in {"select", "check", "selectSmart"}}

\* C16 (as claimed; does not hold): once the matcher has yielded NoMatch in
\* a selectSmart call, the call fails without any click on an option, and
\* its error names the input field and the target value.
C16_NoMatchFailsSelectSmart ==
    (/\ Fin /\ F.prim = "selectSmart"
     /\ \E i \in DOMAIN F.errs : IsNoMatch(F, F.errs[i])) =>
        /\ outcome.status = "failed"
        /\ ~Has(Names(F.trace), <<"click", "option">>)
        /\ Has(outcome.message, F.args.sel)
        /\ \A i \in DOMAIN F.args.value : Has(outcome.message, F.args.value[i])

\* C17 (as claimed; does not hold): a frame of select, check or selectSmart
\* in which findBestMatch found nothing has called its action once and has
\* neither slept nor warned.
C17_NoMatchIsNotRetried ==
    \A f \in MatchFrames :
        (\E i \in DOMAIN f.errs : IsNoMatch(f, f.errs[i])) =>
            /\ Len(CallEvents(f.log)) = 1
            /\ SleepEvents(f.log) = <<>>
            /\ f.state # "sleep"

\* C18 (as claimed; does not hold): select and check called for an optional
\* field (required not set) record no NoMatch error and do not fail.
C18_OptionalFieldIsSkipped ==
    \A f \in MatchFrames :
        (f.prim \in {"select", "check"} /\ ~f.args.required) =>
            /\ \A i \in DOMAIN f.errs : ~IsNoMatch(f, f.errs[i])
            /\ (Fin /\ f = F /\ f.lastError # <<"TimeoutError">>) => outcome.status = "ok"

\* a selectSmart call that succeeded at its second attempt, after the
\* matcher had found nothing in the first one
C16_RetriedToSuccess ==
    /\ Fin /\ F.prim = "selectSmart" /\ outcome.status = "ok"
    /\ Len(F.errs) = 1 /\ IsNoMatch(F, F.errs[1])
    /\ SleepsOf(F.log) = <<1000>>

(***************************************************************************)
(* Properties of the content of typed-into inputs                          *)
(***************************************************************************)
\* C31 (as claimed; does not hold): when a call type(selector, text) made
\* without clearFirst on an empty field has returned, the field holds
\* exactly text, whatever happened in earlier attempts.
C31_TypeLeavesExactlyText ==
    (/\ Fin /\ outcome.status = "ok"
     /\ F.prim = "type" /\ ~F.args.clearFirst) => typed = F.args.text

\* a type call that succeeded at its first attempt
C31_FirstAttempt ==
    /\ Fin /\ outcome.status = "ok" /\ F.prim = "type" /\ ~F.args.date
    /\ F.attempt = 0 /\ typed = FieldText

\* a type call that succeeded at its second attempt, the first one having
\* failed with one character typed
C31_Accumulated ==
    /\ Fin /\ outcome.status = "ok" /\ F.prim = "type" /\ ~F.args.date
    /\ F.attempt = 1 /\ typed = <<"J", "J", "o">>

\* C32: in every attempt of the type call that selectSmart makes the input
\* is empty from the clearing fill until the search term is typed, and
\* whenever a selectSmart attempt is about to wait for the results
\* container the input holds exactly the search term, the first
\* min(3, length) characters of the target, however many attempts of
\* selectSmart or of its type call came before.
C32_InputClearedInEveryAttempt ==
    \A n \in DOMAIN stack :
        LET f == stack[n]
        IN /\ (/\ f.prim = "type" /\ f.args.clearFirst
               /\ f.state = "run" /\ f.ip \in {3, 4}) => typed = <<>>
           /\ (/\ f.prim = "selectSmart" /\ f.state = "run"
               /\ f.ip <= Len(Body(f.prim, f.args))
               /\ Body(f.prim, f.args)[f.ip] = Page("waitForSelector")) =>
                  /\ typed = SearchTerm(f.args.value)
                  /\ Len(typed) <= 3

\* the second attempt of a selectSmart call for a four-character target is
\* about to wait for the results container
C32_Witness ==
    /\ Len(stack) = 1 /\ stack[1].prim = "selectSmart"
    /\ stack[1].args.value = <<"s", "t", "a", "n">>
    /\ stack[1].attempt = 1 /\ stack[1].state = "run" /\ stack[1].ip = 4
    /\ typed = <<"s", "t", "a">>

\* the second attempt of the type call inside the second attempt of
\* selectSmart has cleared the input and is about to type
C32_WitnessInner ==
    /\ Len(stack) = 2 /\ stack[1].prim = "selectSmart" /\ stack[1].attempt = 1
    /\ stack[2].prim = "type" /\ stack[2].attempt = 1
    /\ stack[2].state = "run" /\ stack[2].ip = 4
    /\ typed = <<>>

\* the calls of toggle and toggleSwitch
ToggleFrames == {f \in Frames : f.prim \in {"toggle", "toggleSwitch"}}
StateRead == <<"evaluate", "">>
ToggleClick == <<"click", "toggle">>

\* what an attempt of toggle / toggleSwitch has done is consistent with
\* the state it read
ReadBeforeClick ==
    /\ \A f \in ToggleFrames : \A i \in DOMAIN f.trace :
          /\ f.trace[i].name = ToggleClick =>
                /\ i > 1
                /\ f.trace[i - 1] = [name |-> StateRead, r |-> Read(~f.args.target)]
          /\ f.trace[i] = [name |-> StateRead, r |-> Read(f.args.target)] =>
                /\ i = Len(f.trace)
                /\ f.state = "run" /\ f.ip > Len(Body(f.prim, f.args))
    /\ \A n \in DOMAIN stack :
          (stack[n].prim \in {"toggle", "toggleSwitch"} /\ n < Len(stack)) =>
              /\ CallName(stack[n + 1]) = ToggleClick
              /\ stack[n].trace[Len(stack[n].trace)] =
                    [name |-> StateRead, r |-> Read(~stack[n].args.target)]

\* a step of a toggle / toggleSwitch call that changes the control
Flips ==
    /\ stack # <<>> /\ stack[1].prim \in {"toggle", "toggleSwitch"}
    /\ ctl' # ctl

\* C33: in every attempt of toggle and of toggleSwitch a click on the
\* control is called only after the state was read in that same attempt
\* and differed from the target; an attempt that read the target state
\* ends without a click; and every change of the control during such a
\* call takes it to the target, so a control at the target is never
\* flipped, by the first attempt or by a later one.
C33_ClickOnlyWhenStateDiffers ==
    /\ []ReadBeforeClick
    /\ [][Flips => ctl' = stack[1].args.target]_vars

\* toggleSwitch succeeded at its second attempt (the click of the first
\* one had failed three times): it read the state again, clicked, and the
\* control is at the target
C33_Witness ==
    /\ Fin /\ outcome.status = "ok" /\ F.prim = "toggleSwitch" /\ F.attempt = 1
    /\ Names(F.trace) = <<StateRead, ToggleClick, ReadingDelay>>
    /\ ctl = F.args.target

\* toggle called on a control already at the target and retried after the
\* wait for the control timed out: no click, the control is untouched
C33_AlreadyAtTarget ==
    /\ Fin /\ outcome.status = "ok" /\ F.prim = "toggle" /\ F.attempt = 1
    /\ F.trace[Len(F.trace)] = [name |-> StateRead, r |-> Read(F.args.target)]
    /\ ~Has(Names(F.trace), ToggleClick)
    /\ ctl = F.args.target

(***************************************************************************)
(* select, check, selectSmart: from the page's options to the option acted *)
(* on                                                                      *)
(***************************************************************************)
\* the target a primitive is called with: Fuse scores a key equal to it 0
ResolveTargets == {"a"}
OptionPrimitives == {"select", "check", "selectSmart"}

\* Fuse scores of the target: 0 for the key that equals it, else any
ScoresFor(target) ==
    {sc \in [KeyStrings -> ScoreSet \cup {0}] :
        \A k \in KeyStrings : sc[k] = 0 <=> k = target}

\* variant: check extracts every input of the container
ExtractEveryInput(prim, dom, target) ==
    CASE prim = "selectSmart" ->
            [i \in DOMAIN dom |->
                [dom[i] EXCEPT !.value = IF @ # "" THEN @ ELSE dom[i].text]]
      [] OTHER -> dom

\* matchableOptions: select takes every option of the <select>; check takes
\* the inputs matching [value="${targetValue}"], text: label || input.value;
\* selectSmart takes every option, value: dataset.value || textContent
Extract(prim, dom, target) ==
    CASE prim = "check" ->
            LET inputs == SelectSeq(dom, LAMBDA el : el.value = target)
            IN [i \in DOMAIN inputs |->
                   [inputs[i] EXCEPT !.text = IF @ # "" THEN @ ELSE inputs[i].value]]
      [] prim = "selectSmart" ->
            [i \in DOMAIN dom |->
                [dom[i] EXCEPT !.value = IF @ # "" THEN @ ELSE dom[i].text]]
      [] OTHER -> dom

\* matchableOptions.find(o => o.value === matchedValue)
FindOption(options, matchedValue) ==
    LET idx == {i \in DOMAIN options : options[i].value = matchedValue}
    IN IF idx = {} THEN [value |-> "", text |-> "", disabled |-> FALSE]
       ELSE options[CHOOSE i \in idx : \A j \in idx : i <= j]

\* if (!matchedValue) throw new Error(`No match found ...`); else
\* selectOption(matchedValue) / click input[value="${matchedValue}"] /
\* click the option with text matchedOption?.text || matchedValue
Resolve(prim, target, options, matchedValue) ==
    IF matchedValue \in {NoMatch, ""}
    THEN [kind |-> "error",
          message |-> NoMatchMessage([prim |-> prim,
                                      args |-> [NoArgs EXCEPT !.sel = "field",
                                                              !.value = <<target>>]]),
          value |-> "", text |-> ""]
    ELSE CASE prim = "select" ->
                [kind |-> "selectOption", message |-> <<>>,
                 value |-> matchedValue, text |-> ""]
           [] prim = "check" ->
                [kind |-> "click", message |-> <<>>,
                 value |-> matchedValue, text |-> ""]
           [] OTHER ->
                [kind |-> "click", message |-> <<>>, value |-> matchedValue,
                 text |-> IF FindOption(options, matchedValue).text # ""
                          THEN FindOption(options, matchedValue).text
                          ELSE matchedValue]

InitResolve ==
    /\ oPrim \in OptionPrimitives
    /\ oTarget \in ResolveTargets
    /\ oDom \in OptionLists
    /\ oEnd = NoOutcome
    /\ mOptions = <<>>
    /\ mScore \in ScoresFor(oTarget)
    /\ mpc = "idle"
    /\ mVariant = "none"
    /\ mResult = NoMatch
    /\ mTier = 0
    /\ mWarns = <<>>
    /\ dAdapter = "none" /\ dProfile = NoProfile /\ dip = 1 /\ dpc = "idle" /\ dLog = <<>>
    /\ InitRetry /\ RunIdle
    /\ ValidateIdle /\ RegistryIdle /\ ApplyIdle /\ HumanIdle

\* one attempt of the primitive from the extraction of the options on, with
\* findBestMatch of src/utils/matcher.ts
ResolveCall ==
    /\ mpc = "idle" /\ oPrim \in OptionPrimitives
    /\ LET options == Extract(oPrim, oDom, oTarget)
           r == findBestMatch(mScore, options)
       IN /\ mOptions' = options
          /\ mResult' = r.value
          /\ mTier' = r.tier
          /\ mWarns' = r.warns
          /\ oEnd' = Resolve(oPrim, oTarget, options, r.value)
    /\ mpc' = "done"
    /\ mVariant' = "matcher.ts"
    /\ UNCHANGED <<mScore, oPrim, oTarget, oDom, adaptervars>>
    /\ UNCHANGED <<rvars, runvars, valvars, regvars, applyvars, humanvars>>

\* the same with the second findBestMatch
ResolveCallWarn ==
    /\ mpc = "idle" /\ oPrim \in OptionPrimitives
    /\ LET options == Extract(oPrim, oDom, oTarget)
           r == findBestMatchWarn(mScore, options)
       IN /\ mOptions' = options
          /\ mResult' = r.value
          /\ mTier' = r.tier
          /\ mWarns' = r.warns
          /\ oEnd' = Resolve(oPrim, oTarget, options, r.value)
    /\ mpc' = "done"
    /\ mVariant' = "part_001"
    /\ UNCHANGED <<mScore, oPrim, oTarget, oDom, adaptervars>>
    /\ UNCHANGED <<rvars, runvars, valvars, regvars, applyvars, humanvars>>

NextResolve == ResolveCall \/ ResolveCallWarn

SpecResolve == InitResolve /\ [][NextResolve]_vars

(***************************************************************************)
(* Properties of the option resolution                                     *)
(***************************************************************************)
Resolved == mpc = "done" /\ oPrim \in OptionPrimitives
HasValue(dom, v) == \E i \in DOMAIN dom : dom[i].value = v

C35_WitnessClick ==
    /\ Resolved /\ oPrim = "check"
    /\ Len(oDom) = 2 /\ oDom[1].value = "b" /\ ~oDom[1].disabled
    /\ oDom[2].value = oTarget /\ ~oDom[2].disabled
    /\ oEnd.kind = "click" /\ oEnd.value = oTarget

\* findBestMatch accepted an option: a search had a hit, or the value of
\* the first enabled option was returned after the loop
Accepted == mTier > 0 \/ mResult # NoMatch

\* C36 (as claimed; does not hold): select, check and selectSmart throw
\* their no-match error exactly when findBestMatch accepted no option; when
\* it accepted one, also one whose value is the empty string, the primitive
\* selects or clicks the option with the value returned.
C36_NoMatchIffNoCandidate ==
    Resolved =>
        /\ oEnd.kind = "error" <=> ~Accepted
        /\ Accepted => oEnd.kind \in {"selectOption", "click"} /\ oEnd.value = mResult

\* select on a <select> whose placeholder option (value '') is the hit
C36_PlaceholderAccepted ==
    /\ Resolved /\ oPrim = "select"
    /\ mTier = 1 /\ mResult = ""
    /\ oEnd.kind = "error"

\* an accepted option with a value is selected
C36_Selected ==
    /\ Resolved /\ oPrim = "select"
    /\ mTier = 2 /\ mResult = "b"
    /\ oEnd.kind = "selectOption" /\ oEnd.value = "b"

(***************************************************************************)
(* BasePlatform.run(): the lifecycle around apply()                        *)
(***************************************************************************)
MaxClock == 3

\* what page.textContent('#confirmation-id') resolves to: null, '', blank
\* text, or a reference number with white space around it
TextContents ==
    {[null |-> TRUE, chars |-> <<>>],
     [null |-> FALSE, chars |-> <<>>],
     [null |-> FALSE, chars |-> <<" ">>],
     [null |-> FALSE, chars |-> <<"R", "7">>],
     [null |-> FALSE, chars |-> <<" ", "R", "7", " ">>]}

\* !text
Falsy(text) == text.null \/ text.chars = <<>>

RECURSIVE TrimStart(_)
TrimStart(q) == IF q # <<>> /\ Head(q) = " " THEN TrimStart(Tail(q)) ELSE q
RECURSIVE TrimEnd(_)
TrimEnd(q) ==
    IF q # <<>> /\ q[Len(q)] = " " THEN TrimEnd(SubSeq(q, 1, Len(q) - 1)) ELSE q
\* String.prototype.trim
Trim(q) == TrimEnd(TrimStart(q))

Err(message) == [isError |-> TRUE, kind |-> "Error", message |-> message, num |-> 0]

\* what apply() can throw before it reads the confirmation: the error of a
\* primitive or of the page, or a value that is not an Error
ThrownValues ==
    {Err("Failed after 3 retries: click #globex-submit - TimeoutError"),
     Err(""),
     [isError |-> FALSE, kind |-> "string", message |-> "net::ERR_ABORTED", num |-> 0],
     [isError |-> FALSE, kind |-> "number", message |-> "", num |-> 42],
     [isError |-> FALSE, kind |-> "undefined", message |-> "", num |-> 0]}

NotFound == Err("Confirmation ID not found on success page")

\* error instanceof Error ? error.message : String(error)
ErrorMessage(error) ==
    CASE error.isError -> error.message
      [] error.kind = "string" -> error.message
      [] error.kind = "number" -> ToString(error.num)
      [] OTHER -> "undefined"

\* variant: the success result carries an empty error as well
SuccessResultWithError(confirmationId, duration) ==
    [success |-> TRUE, confirmationId |-> confirmationId, error |-> "",
     durationMs |-> duration]

\* return { success: true, confirmationId, durationMs: duration }
SuccessResult(confirmationId, duration) ==
    [success |-> TRUE, confirmationId |-> confirmationId, durationMs |-> duration]

\* return { success: false, error: errorMessage, durationMs: duration }
FailureResult(errorMessage, duration) ==
    [success |-> FALSE, error |-> errorMessage, durationMs |-> duration]

\* variant: a failing page.screenshot escalates to the caller of screenshot
screenshotEscalates(context, ok) ==
    [shot |-> [context |-> context, ok |-> ok], threw |-> ~ok]

\* screenshot(context): try { page.screenshot } catch { logger.warn }
screenshot(context, ok) ==
    [shot |-> [context |-> context, ok |-> ok], threw |-> FALSE]

\* const startTime = Date.now(); then apply() is called
RunStart ==
    /\ rpc = "idle"
    /\ startTime' = now
    /\ rpc' = "apply"
    /\ UNCHANGED <<now, thrown, applied, shots, runResult>>
    /\ UNCHANGED <<mvars, rvars, appvars>>

\* apply() throws while it fills and submits the form
ApplyThrows ==
    /\ rpc = "apply"
    /\ thrown' \in ThrownValues
    /\ rpc' = "catch"
    /\ UNCHANGED <<now, startTime, applied, shots, runResult>>
    /\ UNCHANGED <<mvars, rvars, appvars>>

\* apply(): await this.screenshot('success') after the submit
ApplyScreenshot ==
    /\ rpc = "apply"
    /\ \E ok \in BOOLEAN :
         LET s == screenshot("success", ok)
         IN /\ shots' = Append(shots, s.shot)
            /\ rpc' = IF s.threw THEN "catch" ELSE "read"
            /\ thrown' = IF s.threw THEN Err("screenshot") ELSE thrown
    /\ UNCHANGED <<now, startTime, applied, runResult>>
    /\ UNCHANGED <<mvars, rvars, appvars>>

\* apply(): read the confirmation id; throw if there is none, else
\* return it trimmed
ApplyRead ==
    /\ rpc = "read"
    /\ \E confirmationId \in TextContents :
         IF Falsy(confirmationId)
         THEN /\ thrown' = NotFound
              /\ rpc' = "catch"
              /\ UNCHANGED applied
         ELSE /\ applied' = Trim(confirmationId.chars)
              /\ rpc' = "returned"
              /\ UNCHANGED thrown
    /\ UNCHANGED <<now, startTime, shots, runResult>>
    /\ UNCHANGED <<mvars, rvars, appvars>>

\* the try branch of run() after apply() has returned
RunSucceeds ==
    /\ rpc = "returned"
    /\ runResult' = SuccessResult(applied, now - startTime)
    /\ rpc' = "done"
    /\ UNCHANGED <<now, startTime, thrown, applied, shots>>
    /\ UNCHANGED <<mvars, rvars, appvars>>

\* catch (error): await this.screenshot('error')
CatchScreenshot ==
    /\ rpc = "catch"
    /\ \E ok \in BOOLEAN :
         LET s == screenshot("error", ok)
         IN /\ shots' = Append(shots, s.shot)
            /\ rpc' = IF s.threw THEN "rejected" ELSE "failing"
    /\ UNCHANGED <<now, startTime, thrown, applied, runResult>>
    /\ UNCHANGED <<mvars, rvars, appvars>>

\* the rest of the catch branch of run()
RunFails ==
    /\ rpc = "failing"
    /\ runResult' = FailureResult(ErrorMessage(thrown), now - startTime)
    /\ rpc' = "done"
    /\ UNCHANGED <<now, startTime, thrown, applied, shots>>
    /\ UNCHANGED <<mvars, rvars, appvars>>

\* time passes while run() is awaiting
Tick ==
    /\ rpc \notin {"done", "rejected"}
    /\ now < MaxClock
    /\ now' = now + 1
    /\ UNCHANGED <<rpc, startTime, thrown, applied, shots, runResult>>
    /\ UNCHANGED <<mvars, rvars, appvars>>

NextRun ==
    \/ RunStart \/ ApplyThrows \/ ApplyScreenshot \/ ApplyRead
    \/ RunSucceeds \/ CatchScreenshot \/ RunFails \/ Tick

SpecRun == Init /\ [][NextRun]_vars

(***************************************************************************)
(* Properties of run()                                                     *)
(***************************************************************************)
Returned == rpc = "done"
ErrorShots == SelectSeq(shots, LAMBDA s : s.context = "error")

\* C19: every ApplicationResult returned by run() has success and
\* durationMs; with success = true it has confirmationId and no error, with
\* success = false it has error and no confirmationId.
C19_ExactlyOneOfIdOrError ==
    Returned =>
        /\ {"success", "durationMs"} \subseteq DOMAIN runResult
        /\ runResult.durationMs \in Int
        /\ runResult.success =>
              DOMAIN runResult = {"success", "confirmationId", "durationMs"}
        /\ ~runResult.success =>
              DOMAIN runResult = {"success", "error", "durationMs"}
        /\ runResult.success <=> thrown = NoThrown

\* a successful run that took some time
C19_Witness ==
    /\ Returned /\ runResult.success
    /\ runResult.confirmationId = <<"R", "7">>
    /\ runResult.durationMs > 0

\* a failed run
C19_WitnessFailed ==
    /\ Returned /\ ~runResult.success
    /\ runResult.error = "42"

\* C20: a call of run() always ends by returning a result and never by
\* rejecting; when apply() threw, exactly one 'error' screenshot was
\* attempted before the return, and the result is {success: false, error,
\* durationMs} with the message of what apply() threw, whether that
\* screenshot worked or not; when apply() returned, no 'error' screenshot
\* was attempted.
C20_ApplyFailureIsReturned ==
    /\ rpc # "rejected"
    /\ rpc = "failing" => Len(ErrorShots) = 1
    /\ Returned =>
          IF thrown # NoThrown
          THEN /\ Len(ErrorShots) = 1
               /\ shots[Len(shots)].context = "error"
               /\ runResult = FailureResult(ErrorMessage(thrown), runResult.durationMs)
          ELSE ErrorShots = <<>>

\* apply() threw, the error screenshot failed, and the result carries the
\* message of apply()'s error
C20_Witness ==
    /\ Returned /\ thrown = NotFound
    /\ shots[Len(shots)] = [context |-> "error", ok |-> FALSE]
    /\ runResult.error = "Confirmation ID not found on success page"
    /\ ~runResult.success

(***************************************************************************)
(* The adapters' apply(): AcmeAdapter, GlobexAdapter, InitechAdapter       *)
(***************************************************************************)
MaxSkills == 2

Adapters == {"AcmeAdapter", "GlobexAdapter", "InitechAdapter"}

\* the optional parts of the profile that apply() tests; "visa" stands for
\* workAuthorized && requiresVisa
Optional == {"linkedIn", "portfolio", "resumePath", "visa", "salaryExpectation"}

\* the profiles an adapter is built with: which optional parts are set, how
\* many skills, and whether salaryExpectation holds digits
AdapterProfiles ==
    [has : SUBSET Optional, skills : 0..MaxSkills, salaryIsNumber : BOOLEAN]

\* an awaited step of apply(): its kind, the method awaited, the selector
Step(k, op, sel) == [k |-> k, op |-> op, sel |-> sel]
Fill(op, sel) == Step("fill", op, sel)
If(cond, steps) == IF cond THEN steps ELSE <<>>
Times(n, step) == [i \in 1..n |-> step]

\* the end of every apply(): screenshot, submit, wait for the success
\* element, screenshot, read the confirmation
Submission(submit, success, ref) ==
    <<Step("shot", "screenshot", "before-submit"),
      Step("submit", "click", submit),
      Step("success", "waitFor", success),
      Step("shot", "screenshot", "success"),
      Step("read", "textContent", ref)>>

\* variant: the application is submitted before the review step
AcmeApplySubmitsEarly(p) ==
    <<Fill("type", "#first-name"), Fill("type", "#last-name"),
      Fill("type", "#email"), Fill("type", "#phone"), Fill("type", "#location")>>
    \o <<Step("nav", "clickContinue", ".active")>>
    \o <<Fill("select", "#experience-level"), Fill("select", "#education"),
         Fill("selectSmart", "#school")>>
    \o Times(p.skills, Fill("check", "#skills-group"))
    \o <<Step("nav", "clickContinue", ".active")>>
    \o <<Fill("check", "workAuth"), Fill("type", "#start-date"),
         Fill("select", "#referral"), Fill("type", "#cover-letter")>>
    \o <<Step("nav", "clickContinue", ".active")>>
    \o <<Step("shot", "screenshot", "before-submit"),
         Step("submit", "click", "Submit Application"),
         Step("wait", "waitFor", ".review-section"),
         Step("consent", "click", "#terms-agree"),
         Step("success", "waitFor", "#success-page"),
         Step("shot", "screenshot", "success"),
         Step("read", "textContent", "#confirmation-id")>>

\* AcmeAdapter.apply with fillStep1PersonalInfo .. fillStep4Review and
\* clickContinue
AcmeApply(p) ==
    <<Fill("type", "#first-name"), Fill("type", "#last-name"),
      Fill("type", "#email"), Fill("type", "#phone"), Fill("type", "#location")>>
    \o If("linkedIn" \in p.has, <<Fill("type", "#linkedin")>>)
    \o If("portfolio" \in p.has, <<Fill("type", "#portfolio")>>)
    \o <<Step("nav", "clickContinue", ".active")>>
    \o If("resumePath" \in p.has, <<Fill("uploadFile", "#resume")>>)
    \o <<Fill("select", "#experience-level"), Fill("select", "#education"),
         Fill("selectSmart", "#school")>>
    \o Times(p.skills, Fill("check", "#skills-group"))
    \o <<Step("nav", "clickContinue", ".active")>>
    \o <<Fill("check", "workAuth")>>
    \o If("visa" \in p.has, <<Step("wait", "waitFor", "#visa-sponsorship-group"),
                              Fill("check", "#visa-sponsorship-group")>>)
    \o <<Fill("type", "#start-date")>>
    \o If("salaryExpectation" \in p.has, <<Fill("type", "#salary-expectation")>>)
    \o <<Fill("select", "#referral"), Fill("type", "#cover-letter")>>
    \o <<Step("nav", "clickContinue", ".active")>>
    \o <<Step("wait", "waitFor", ".review-section"),
         Step("consent", "click", "#terms-agree")>>
    \o Submission("Submit Application", "#success-page", "#confirmation-id")

\* GlobexAdapter.apply with its four sections; setSalarySlider returns at
\* once, with a warning, when the salary holds no digits
GlobexApply(p) ==
    <<Step("nav", "expandSection", "Contact Details"),
      Fill("type", "#g-fname"), Fill("type", "#g-lname"),
      Fill("type", "#g-email"), Fill("type", "#g-phone"), Fill("type", "#g-city")>>
    \o If("linkedIn" \in p.has, <<Fill("type", "#g-linkedin")>>)
    \o If("portfolio" \in p.has, <<Fill("type", "#g-website")>>)
    \o <<Step("nav", "expandSection", "Qualifications")>>
    \o If("resumePath" \in p.has, <<Fill("uploadFile", "#g-resume")>>)
    \o <<Fill("select", "#g-experience"), Fill("select", "#g-degree"),
         Fill("selectSmart", "#g-school")>>
    \o Times(p.skills, Fill("clickSkillChip", ".chip"))
    \o <<Step("nav", "expandSection", "Additional Information"),
         Fill("toggleSwitch", "#g-work-auth-toggle")>>
    \o If("visa" \in p.has, <<Step("wait", "waitFor", "#g-visa-block"),
                              Fill("toggleSwitch", "#g-visa-toggle")>>)
    \o <<Fill("type", "#g-start-date")>>
    \o If("salaryExpectation" \in p.has,
          <<Step(IF p.salaryIsNumber THEN "fill" ELSE "skip",
                 "setSalarySlider", "#g-salary")>>)
    \o <<Fill("select", "#g-source"), Fill("type", "#g-motivation"),
         Step("consent", "click", "#g-consent")>>
    \o Submission("#globex-submit", ".globex-confirmation", "#globex-ref")

\* InitechAdapter.apply with its three tabs and clickTab
InitechApply(p) ==
    <<Fill("type", "#i-fname"), Fill("type", "#i-lname"),
      Fill("type", "#i-email"), Fill("type", "#i-phone"), Fill("type", "#i-location")>>
    \o If("linkedIn" \in p.has, <<Fill("type", "#i-linkedin")>>)
    \o If("portfolio" \in p.has, <<Fill("type", "#i-portfolio")>>)
    \o If("resumePath" \in p.has, <<Fill("uploadFile", "#i-resume")>>)
    \o <<Step("nav", "clickTab", "Qualifications")>>
    \o <<Fill("select", "#i-experience"), Fill("select", "#i-education"),
         Fill("selectSmart", "#i-school")>>
    \o Times(p.skills, Fill("check", "#i-skills-group"))
    \o <<Step("nav", "clickTab", "Preferences")>>
    \o <<Fill("check", "workAuth")>>
    \o If("visa" \in p.has, <<Step("wait", "waitFor", "#i-visa-group"),
                              Fill("check", "#i-visa-group")>>)
    \o <<Fill("type", "#i-start-date")>>
    \o If("salaryExpectation" \in p.has, <<Fill("select", "#i-salary")>>)
    \o <<Fill("select", "#i-referral"), Fill("type", "#i-cover-letter"),
         Step("consent", "click", "#i-consent")>>
    \o Submission("#i-submit-btn", "#initech-success", "#initech-ref")

ApplySteps(adapter, p) ==
    CASE adapter = "AcmeAdapter" -> AcmeApply(p)
      [] adapter = "GlobexAdapter" -> GlobexApply(p)
      [] OTHER -> InitechApply(p)

\* an adapter has been constructed for a profile and apply() is called
InitAdapter ==
    /\ dAdapter \in Adapters
    /\ dProfile \in AdapterProfiles
    /\ dip = 1
    /\ dpc = "running"
    /\ dLog = <<>>
    /\ oPrim = "none" /\ oTarget = "" /\ oDom = <<>> /\ oEnd = NoOutcome
    /\ EngineIdle /\ ValidateIdle /\ RegistryIdle /\ ApplyIdle /\ HumanIdle

ApplyStep == ApplySteps(dAdapter, dProfile)[dip]
Applying == dpc = "running" /\ dip <= Len(ApplySteps(dAdapter, dProfile))
Done(step, r) == [step |-> step, r |-> r]
Awaited == {"fill", "nav", "wait", "consent", "submit", "success"}
otherThanAdapter ==
    <<mvars, rvars, valvars, regvars, applyvars, humanvars, resolvevars,
      rpc, now, startTime, runResult>>

\* an awaited primitive, helper or wait resolves
StepResolves ==
    /\ Applying /\ ApplyStep.k \in Awaited
    /\ dLog' = Append(dLog, Done(ApplyStep, "ok"))
    /\ dip' = dip + 1
    /\ UNCHANGED <<dAdapter, dProfile, dpc, thrown, applied, shots>>
    /\ UNCHANGED otherThanAdapter

\* an awaited primitive, helper or wait rejects: apply() rejects with it
StepRejects ==
    /\ Applying /\ ApplyStep.k \in Awaited
    /\ dLog' = Append(dLog, Done(ApplyStep, "failed"))
    /\ thrown' = Err("Failed after 3 retries")
    /\ dpc' = "threw"
    /\ UNCHANGED <<dAdapter, dProfile, dip, applied, shots>>
    /\ UNCHANGED otherThanAdapter

\* setSalarySlider with a salary that is not a number: warn and return
StepSkips ==
    /\ Applying /\ ApplyStep.k = "skip"
    /\ dLog' = Append(dLog, Done(ApplyStep, "skipped"))
    /\ dip' = dip + 1
    /\ UNCHANGED <<dAdapter, dProfile, dpc, thrown, applied, shots>>
    /\ UNCHANGED otherThanAdapter

\* await this.screenshot(context)
StepScreenshot ==
    /\ Applying /\ ApplyStep.k = "shot"
    /\ \E ok \in BOOLEAN :
         LET s == screenshot(ApplyStep.sel, ok)
         IN /\ shots' = Append(shots, s.shot)
            /\ dLog' = Append(dLog, Done(ApplyStep,
                                         CASE s.threw -> "failed"
                                           [] ok -> "ok"
                                           [] OTHER -> "swallowed"))
            /\ dip' = IF s.threw THEN dip ELSE dip + 1
            /\ dpc' = IF s.threw THEN "threw" ELSE dpc
            /\ thrown' = IF s.threw THEN Err("screenshot") ELSE thrown
    /\ UNCHANGED <<dAdapter, dProfile, applied>>
    /\ UNCHANGED otherThanAdapter

\* const id = await this.page.textContent(ref); if (!id) throw ...;
\* return id.trim()
StepRead ==
    /\ Applying /\ ApplyStep.k = "read"
    /\ \/ /\ dLog' = Append(dLog, Done(ApplyStep, "failed"))
          /\ thrown' = Err("TimeoutError")
          /\ dpc' = "threw"
          /\ UNCHANGED applied
       \/ \E text \in TextContents :
            /\ dLog' = Append(dLog, Done(ApplyStep, "ok"))
            /\ IF Falsy(text)
               THEN /\ thrown' = NotFound
                    /\ dpc' = "threw"
                    /\ UNCHANGED applied
               ELSE /\ applied' = Trim(text.chars)
                    /\ dpc' = "returned"
                    /\ UNCHANGED thrown
    /\ UNCHANGED <<dAdapter, dProfile, dip, shots>>
    /\ UNCHANGED otherThanAdapter

NextAdapter ==
    StepResolves \/ StepRejects \/ StepSkips \/ StepScreenshot \/ StepRead

SpecAdapter == InitAdapter /\ [][NextAdapter]_vars

(***************************************************************************)
(* Properties of apply()                                                   *)
(***************************************************************************)
Kinds(log) == [i \in DOMAIN log |-> log[i].step.k]
At(log, k) == {i \in DOMAIN log : log[i].step.k = k}
FillKinds == {"fill", "skip", "nav", "wait", "consent"}

\* C37: apply() of each adapter takes its awaited steps one at a time in
\* the order of the source: the steps taken are an initial part of that
\* order; only the last step taken can have failed (rejected), and then
\* apply() has thrown and takes no further step; the submit click is taken
\* only when every fill step of the profile and the terms / consent click
\* have been taken and resolved; and the confirmation is read only after
\* the wait for the success element has resolved.
C37_SubmitAfterFillsReadAfterSuccess ==
    LET steps == ApplySteps(dAdapter, dProfile)
    IN dpc # "idle" =>
        /\ Len(dLog) <= Len(steps)
        /\ \A i \in DOMAIN dLog :
              /\ dLog[i].step = steps[i]
              /\ i < Len(dLog) => dLog[i].r # "failed"
              /\ dLog[i].r = "failed" => dpc = "threw"
        /\ \A i \in At(dLog, "submit") :
              /\ \A j \in DOMAIN steps : steps[j].k \in FillKinds => j < i
              /\ \A j \in 1..(i - 1) :
                    dLog[j].step.k \in FillKinds => dLog[j].r \in {"ok", "skipped"}
              /\ Cardinality({j \in 1..(i - 1) : dLog[j].step.k = "consent"}) = 1
        /\ \A i \in At(dLog, "read") :
              \E j \in 1..(i - 1) : dLog[j].step.k = "success" /\ dLog[j].r = "ok"
        /\ dpc = "returned" => Kinds(dLog)[Len(dLog)] = "read" /\ Len(dLog) = Len(steps)

\* GlobexAdapter.apply has returned the reference for a profile with every
\* optional part and two skills; both screenshots had failed
C37_Witness ==
    /\ dpc = "returned" /\ dAdapter = "GlobexAdapter"
    /\ dProfile.has = Optional /\ dProfile.skills = 2
    /\ applied = <<"R", "7">>
    /\ Cardinality(At(dLog, "submit")) = 1
    /\ \A i \in At(dLog, "shot") : dLog[i].r = "swallowed"

\* the consent click of InitechAdapter.apply has failed: nothing was
\* submitted
C37_WitnessAbort ==
    /\ dpc = "threw" /\ dAdapter = "InitechAdapter"
    /\ dLog[Len(dLog)].step.k = "consent" /\ dLog[Len(dLog)].r = "failed"
    /\ At(dLog, "submit") = {}

(***************************************************************************)
(* validateProfile                                                         *)
(***************************************************************************)
MaxDeviations == 2

\* what a field that deviates from the sample profile can hold
Deviations == {Undefined, Null, Str(<<>>), Str(<<" ">>), Str(<<" ", " ">>), Arr(0), Num}

\* the sample profile with the fields of S replaced as d says
Deviate(S, d) == [f \in FieldNames |-> IF f \in S THEN d[f] ELSE sampleProfile[f]]

\* the profiles validateProfile is called with
Profiles ==
    UNION {{Deviate(S, d) : d \in [S -> Deviations]} :
              S \in {T \in SUBSET FieldNames : Cardinality(T) <= MaxDeviations}}

\* value === undefined || value === null
IsMissing(value) == value.t \in {"undefined", "null"}

\* typeof value === 'string' && value.trim() === '', or
\* Array.isArray(value) && value.length === 0
IsEmpty(value) ==
    \/ value.t = "string" /\ Trim(value.chars) = <<>>
    \/ value.t = "array" /\ value.len = 0

\* the for loop over requiredFields: the names pushed to missingFields
missingFields(profile) ==
    SelectSeq(requiredFields, LAMBDA f : IsMissing(profile[f]))

\* the names pushed to emptyFields
emptyFields(profile) ==
    SelectSeq(requiredFields, LAMBDA f : ~IsMissing(profile[f]) /\ IsEmpty(profile[f]))

\* variant: the first violation found is thrown at once
validateProfileFirstOnly(profile) ==
    LET bad == SelectSeq(requiredFields,
                         LAMBDA f : IsMissing(profile[f]) \/ IsEmpty(profile[f]))
    IN IF bad = <<>> THEN <<>>
       ELSE <<"Profile validation failed:", "Missing required fields:", Head(bad)>>

\* the message of the Error validateProfile throws, <<>> when it returns;
\* join(', ') is kept as the list of the names joined
validateProfile(profile) ==
    LET missing == missingFields(profile)
        empty == emptyFields(profile)
    IN IF missing # <<>> \/ empty # <<>>
       THEN <<"Profile validation failed:">>
            \o (IF missing # <<>> THEN <<"Missing required fields:">> \o missing ELSE <<>>)
            \o (IF empty # <<>> THEN <<"Empty required fields:">> \o empty ELSE <<>>)
       ELSE <<>>

InitValidate ==
    /\ EngineIdle /\ RegistryIdle /\ ApplyIdle /\ HumanIdle /\ StepsIdle
    /\ vProfile \in Profiles
    /\ vpc = "idle"
    /\ vError = <<>>

\* validateProfile(profile)
Validate ==
    /\ vpc = "idle"
    /\ vError' = validateProfile(vProfile)
    /\ vpc' = "done"
    /\ UNCHANGED <<vProfile, mvars, rvars, runvars, regvars, applyvars, humanvars, stepvars>>

NextValidate == Validate

SpecValidate == InitValidate /\ [][NextValidate]_vars

(***************************************************************************)
(* Properties of validateProfile                                           *)
(***************************************************************************)
\* a required field that is undefined/null, a blank string or an empty list
Violating(profile) ==
    {f \in FieldNames :
        \/ profile[f].t \in {"undefined", "null"}
        \/ profile[f].t = "string" /\ \A i \in DOMAIN profile[f].chars : profile[f].chars[i] = " "
        \/ profile[f].t = "array" /\ profile[f].len = 0}
NamedIn(message) == {f \in FieldNames : \E i \in DOMAIN message : message[i] = f}

\* C24: validateProfile throws exactly when some required field is
\* undefined/null, a blank string or an empty list, and the one message it
\* throws names each of those fields once and no other field.
C24_AllViolationsInOneError ==
    vpc = "done" =>
        /\ vError # <<>> <=> Violating(vProfile) # {}
        /\ NamedIn(vError) = Violating(vProfile)
        /\ \A i, j \in DOMAIN vError :
              (vError[i] = vError[j] /\ vError[i] \in FieldNames) => i = j

\* email is missing and skills is an empty list: both are named
C24_Witness ==
    /\ vpc = "done"
    /\ vProfile["email"] = Undefined /\ vProfile["skills"] = Arr(0)
    /\ vError = <<"Profile validation failed:", "Missing required fields:", "email",
                  "Empty required fields:", "skills">>

(***************************************************************************)
(* PlatformRegistry                                                        *)
(***************************************************************************)
MaxPlatforms == 3

\* const BASE_URL
BASE_URL == "http://localhost:3939"

\* urls, as the run of pieces the patterns are made of
Urls ==
    {<<BASE_URL, "/acme", ".html">>,
     <<BASE_URL, "/globex", ".html">>,
     <<BASE_URL, "/initech", ".html">>,
     <<BASE_URL, "/acme", ".html", "?next=", "/globex", ".html">>,
     <<BASE_URL, "/about">>}

\* url patterns: /\/acme\.html/, /\/globex\.html/, /\.html/
AcmePattern == <<"/acme", ".html">>
GlobexPattern == <<"/globex", ".html">>
UrlPatterns == {AcmePattern, GlobexPattern, <<".html">>}

AdapterClasses == {"AcmeAdapter", "GlobexAdapter"}
PlatformNames == {"Acme Corp", "Globex Corp"}

\* interface PlatformConfig
PlatformConfig == [name : PlatformNames, urlPattern : UrlPatterns, adapter : AdapterClasses]

\* urlPattern.test(url) for a pattern without flags: the pattern occurs
\* somewhere in the url
Test(urlPattern, url) ==
    \E i \in 1..(Len(url) - Len(urlPattern) + 1) :
        SubSeq(url, i, i + Len(urlPattern) - 1) = urlPattern

\* variant: the last matching entry is returned
detectPlatformLast(list, url) ==
    LET hits == {i \in DOMAIN list : Test(list[i].urlPattern, url)}
    IN IF hits = {} THEN NoPlatform
       ELSE list[CHOOSE i \in hits : \A j \in hits : j <= i]

\* for (const platform of this.platforms) if (platform.urlPattern.test(url))
\* return platform; ... return null
RECURSIVE detectPlatform(_, _)
detectPlatform(list, url) ==
    IF list = <<>> THEN NoPlatform
    ELSE IF Test(Head(list).urlPattern, url) THEN Head(list)
    ELSE detectPlatform(Tail(list), url)

\* variant: without a detected platform the first registered adapter is used
createAdapterDefaults(list, url) ==
    LET platform == detectPlatform(list, url)
        used == IF platform = NoPlatform /\ list # <<>> THEN Head(list) ELSE platform
    IN IF used = NoPlatform
       THEN [platform |-> platform, new |-> <<>>,
             error |-> <<"No platform adapter found for URL:">> \o url]
       ELSE [platform |-> platform, error |-> <<>>,
             new |-> <<[class |-> used.adapter, platformName |-> used.name]>>]

\* createAdapter: the platform detected, the adapters instantiated and the
\* message of the Error thrown (<<>> if none)
createAdapter(list, url) ==
    LET platform == detectPlatform(list, url)
    IN IF platform = NoPlatform
       THEN [platform |-> platform, new |-> <<>>,
             error |-> <<"No platform adapter found for URL:">> \o url]
       ELSE [platform |-> platform, error |-> <<>>,
             new |-> <<[class |-> platform.adapter, platformName |-> platform.name]>>]

InitRegistry ==
    EngineIdle /\ ValidateIdle /\ ApplyIdle /\ HumanIdle /\ StepsIdle /\ RegistryIdle

\* registry.register(name, urlPattern, adapter)
Register ==
    /\ Len(platforms) < MaxPlatforms
    /\ \E config \in PlatformConfig : platforms' = Append(platforms, config)
    /\ UNCHANGED <<gResult, gNew>>
    /\ UNCHANGED <<mvars, rvars, runvars, valvars, applyvars, humanvars, stepvars>>

\* registry.detectPlatform(url)
DetectPlatform ==
    /\ \E url \in Urls :
         gResult' = [call |-> "detectPlatform", url |-> url,
                     platform |-> detectPlatform(platforms, url), error |-> <<>>]
    /\ gNew' = <<>>
    /\ UNCHANGED platforms
    /\ UNCHANGED <<mvars, rvars, runvars, valvars, applyvars, humanvars, stepvars>>

\* registry.createAdapter(url, page, profile, screenshotDir)
CreateAdapter ==
    /\ \E url \in Urls :
         LET r == createAdapter(platforms, url)
         IN /\ gResult' = [call |-> "createAdapter", url |-> url,
                           platform |-> r.platform, error |-> r.error]
            /\ gNew' = r.new
    /\ UNCHANGED platforms
    /\ UNCHANGED <<mvars, rvars, runvars, valvars, applyvars, humanvars, stepvars>>

NextRegistry == Register \/ DetectPlatform \/ CreateAdapter

SpecRegistry == InitRegistry /\ [][NextRegistry]_vars

(***************************************************************************)
(* Properties of PlatformRegistry                                          *)
(***************************************************************************)
Matching(url) == {i \in DOMAIN platforms : Test(platforms[i].urlPattern, url)}
FirstMatching(url) == CHOOSE i \in Matching(url) : \A j \in Matching(url) : i <= j

\* C22: after any registrations, every call detectPlatform(url) returns
\* the entry with the least index among the registered entries whose pattern
\* matches the url, and a call of detectPlatform or createAdapter leaves the
\* registered list as it was.
C22_FirstMatchWins ==
    [][(DetectPlatform \/ CreateAdapter) =>
          /\ platforms' = platforms
          /\ Matching(gResult'.url) # {} =>
                gResult'.platform = platforms[FirstMatching(gResult'.url)]]_vars

\* two entries match the acme url; the one registered first is returned
C22_Witness ==
    /\ gResult.call = "detectPlatform"
    /\ gResult.url = <<BASE_URL, "/acme", ".html">>
    /\ Len(platforms) = 3
    /\ platforms[1].urlPattern = GlobexPattern
    /\ platforms[2] = [name |-> "Globex Corp", urlPattern |-> <<".html">>, adapter |-> "GlobexAdapter"]
    /\ platforms[3] = [name |-> "Acme Corp", urlPattern |-> AcmePattern, adapter |-> "AcmeAdapter"]
    /\ gResult.platform = platforms[2]

\* C23: with no matching pattern detectPlatform returns null, and
\* createAdapter throws an error that names the url and instantiates
\* nothing; with a matching pattern createAdapter instantiates one adapter,
\* of the class of the first matching entry, with that entry's name.
C23_CreateAdapterFollowsDetection ==
    [][(DetectPlatform \/ CreateAdapter) =>
          LET url == gResult'.url
              first == platforms[FirstMatching(url)]
          IN /\ Matching(url) = {} => gResult'.platform = NoPlatform
             /\ gResult'.call = "detectPlatform" => gNew' = <<>>
             /\ (gResult'.call = "createAdapter" /\ Matching(url) = {}) =>
                   /\ gNew' = <<>>
                   /\ gResult'.error # <<>>
                   /\ \A k \in DOMAIN url :
                         \E n \in DOMAIN gResult'.error : gResult'.error[n] = url[k]
             /\ (gResult'.call = "createAdapter" /\ Matching(url) # {}) =>
                   /\ gResult'.error = <<>>
                   /\ gResult'.platform = first
                   /\ gNew' = <<[class |-> first.adapter, platformName |-> first.name]>>]_vars

\* createAdapter for a url no registered pattern matches
C23_Witness ==
    /\ gResult.call = "createAdapter"
    /\ Len(platforms) = 2
    /\ gResult.url = <<BASE_URL, "/initech", ".html">>
    /\ gResult.error = <<"No platform adapter found for URL:", BASE_URL, "/initech", ".html">>
    /\ gNew = <<>>

(***************************************************************************)
(* applyToJob                                                              *)
(***************************************************************************)
\* the two applyToJob of the repository: src/automator.ts validates the
\* profile first, the one kept in utils/validation.ts does not
ApplyVariants == {"automator", "unvalidated"}

\* profiles applyToJob is called with: complete, email missing and skills
\* empty, phone blank
ApplyProfiles ==
    {sampleProfile,
     [sampleProfile EXCEPT !["email"] = Undefined, !["skills"] = Arr(0)],
     [sampleProfile EXCEPT !["phone"] = Str(<<" ">>)]}

\* registry.register('Acme Corp', ...); registry.register('Globex Corp', ...)
registry ==
    <<[name |-> "Acme Corp", urlPattern |-> AcmePattern, adapter |-> "AcmeAdapter"],
      [name |-> "Globex Corp", urlPattern |-> GlobexPattern, adapter |-> "GlobexAdapter"]>>

\* what adapter.run() resolves to
RunResults ==
    {SuccessResult(<<"R", "7">>, 1),
     FailureResult("Failed after 3 retries: click #globex-submit - TimeoutError", 1)}

Did(step, ok) == [step |-> step, ok |-> ok, class |-> ""]
Returns(result) == [kind |-> "returned", result |-> result]
Throws(message) == [kind |-> "threw", message |-> message]

\* catch (error): return { success: false, error: errorMessage, durationMs: 0 }
Caught(message) == Returns(FailureResult(message, 0))

\* finally { if (browser) await browserManager.close() }: an error thrown
\* here replaces the completion of the try/catch
Finally(pending, browser, closeOk) ==
    IF browser /\ ~closeOk THEN Throws("close failed") ELSE pending

InitApply ==
    EngineIdle /\ ValidateIdle /\ RegistryIdle /\ HumanIdle /\ StepsIdle /\ ApplyIdle

otherThanApply == <<mvars, rvars, runvars, valvars, regvars, humanvars, stepvars>>

\* const targets of main
targets == <<<<BASE_URL, "/acme", ".html">>, <<BASE_URL, "/globex", ".html">>>>

\* main: an iteration of for (const target of targets), which awaits
\* applyToJob(target.url, sampleProfile, logger); a rejection is caught and
\* logged, and the loop goes on
MainLoop ==
    /\ \/ apc = "idle" /\ aVariant' \in ApplyVariants
       \/ apc = "done" /\ aCalls > 0 /\ aVariant' = aVariant
    /\ aCalls < Len(targets)
    /\ aCalls' = aCalls + 1
    /\ aUrl' = targets[aCalls + 1]
    /\ aProfile' = sampleProfile
    /\ apc' = IF aVariant' = "automator" THEN "validate" ELSE "construct"
    /\ aBrowser' = FALSE
    /\ aLog' = <<>>
    /\ aPending' = NoOutcome
    /\ aOutcome' = NoOutcome
    /\ UNCHANGED aOpen
    /\ UNCHANGED otherThanApply

\* applyToJob(url, profile, logger)
CallApply ==
    /\ apc = "idle"
    /\ aVariant' \in ApplyVariants
    /\ aUrl' \in Urls
    /\ aProfile' \in ApplyProfiles
    /\ apc' = IF aVariant' = "automator" THEN "validate" ELSE "construct"
    /\ UNCHANGED <<aBrowser, aLog, aPending, aOutcome>>
    /\ UNCHANGED <<aCalls, aOpen>>
    /\ UNCHANGED otherThanApply

\* try { validateProfile(profile) } catch { return failure }
ValidateStep ==
    /\ apc = "validate"
    /\ LET message == validateProfile(aProfile)
       IN IF message = <<>>
          THEN /\ apc' = "construct"
               /\ UNCHANGED aOutcome
          ELSE /\ apc' = "done"
               /\ aOutcome' = Caught(message)
    /\ UNCHANGED <<aVariant, aUrl, aProfile, aBrowser, aLog, aPending>>
    /\ UNCHANGED <<aCalls, aOpen>>
    /\ UNCHANGED otherThanApply

\* new BrowserManager(...) (creates the screenshot directory), new
\* PlatformRegistry and the two register calls, all before the try
Construct ==
    /\ apc = "construct"
    /\ \E ok \in BOOLEAN :
         /\ aLog' = Append(aLog, Did("BrowserManager", ok))
         /\ apc' = IF ok THEN "launch" ELSE "done"
         /\ aOutcome' = IF ok THEN aOutcome ELSE Throws("mkdir failed")
    /\ UNCHANGED <<aVariant, aUrl, aProfile, aBrowser, aPending>>
    /\ UNCHANGED <<aCalls, aOpen>>
    /\ UNCHANGED otherThanApply

\* browser = await browserManager.launch()
Launch ==
    /\ apc = "launch"
    /\ \E ok \in BOOLEAN :
         /\ aLog' = Append(aLog, Did("launch", ok))
         /\ aBrowser' = ok
         /\ aOpen' = IF ok THEN aOpen + 1 ELSE aOpen
         /\ apc' = IF ok THEN "createPage" ELSE "finally"
         /\ aPending' = IF ok THEN aPending ELSE Caught("launch failed")
    /\ UNCHANGED <<aVariant, aUrl, aProfile, aOutcome>>
    /\ UNCHANGED aCalls
    /\ UNCHANGED otherThanApply

\* page = await browserManager.createPage()
CreatePage ==
    /\ apc = "createPage"
    /\ \E ok \in BOOLEAN :
         /\ aLog' = Append(aLog, Did("createPage", ok))
         /\ apc' = IF ok THEN "goto" ELSE "finally"
         /\ aPending' = IF ok THEN aPending ELSE Caught("newPage failed")
    /\ UNCHANGED <<aVariant, aUrl, aProfile, aBrowser, aOutcome>>
    /\ UNCHANGED <<aCalls, aOpen>>
    /\ UNCHANGED otherThanApply

\* await page.goto(url, { waitUntil: 'networkidle' })
Goto ==
    /\ apc = "goto"
    /\ \E ok \in BOOLEAN :
         /\ aLog' = Append(aLog, Did("goto", ok))
         /\ apc' = IF ok THEN "createAdapter" ELSE "finally"
         /\ aPending' = IF ok THEN aPending ELSE Caught("net::ERR_CONNECTION_REFUSED")
    /\ UNCHANGED <<aVariant, aUrl, aProfile, aBrowser, aOutcome>>
    /\ UNCHANGED <<aCalls, aOpen>>
    /\ UNCHANGED otherThanApply

\* const adapter = registry.createAdapter(url, page, profile, SCREENSHOT_DIR)
CreateAdapterStep ==
    /\ apc = "createAdapter"
    /\ LET r == createAdapter(registry, aUrl)
       IN IF r.error = <<>>
          THEN /\ aLog' = Append(aLog, [step |-> "createAdapter", ok |-> TRUE,
                                        class |-> r.new[1].class])
               /\ apc' = "run"
               /\ UNCHANGED aPending
          ELSE /\ aLog' = Append(aLog, Did("createAdapter", FALSE))
               /\ apc' = "finally"
               /\ aPending' = Caught(r.error)
    /\ UNCHANGED <<aVariant, aUrl, aProfile, aBrowser, aOutcome>>
    /\ UNCHANGED <<aCalls, aOpen>>
    /\ UNCHANGED otherThanApply

\* const result = await adapter.run(); return result
AdapterRun ==
    /\ apc = "run"
    /\ \E result \in RunResults :
         /\ aLog' = Append(aLog, Did("run", result.success))
         /\ aPending' = Returns(result)
    /\ apc' = "finally"
    /\ UNCHANGED <<aVariant, aUrl, aProfile, aBrowser, aOutcome>>
    /\ UNCHANGED <<aCalls, aOpen>>
    /\ UNCHANGED otherThanApply

\* the finally block, then the call completes; a browser.close() that
\* resolves has closed the browser, one that rejects may have left it open
FinallyStep ==
    /\ apc = "finally"
    /\ \E closeOk \in (IF aBrowser THEN BOOLEAN ELSE {TRUE}) :
         /\ aLog' = IF aBrowser THEN Append(aLog, Did("close", closeOk)) ELSE aLog
         /\ aOutcome' = Finally(aPending, aBrowser, closeOk)
         /\ aOpen' \in CASE ~aBrowser -> {aOpen}
                         [] closeOk -> {aOpen - 1}
                         [] OTHER -> {aOpen, aOpen - 1}
    /\ apc' = "done"
    /\ UNCHANGED <<aVariant, aUrl, aProfile, aBrowser, aPending, aCalls>>
    /\ UNCHANGED otherThanApply

NextApply ==
    \/ MainLoop \/ CallApply \/ ValidateStep \/ Construct \/ Launch \/ CreatePage
    \/ Goto \/ CreateAdapterStep \/ AdapterRun \/ FinallyStep

SpecApply == InitApply /\ [][NextApply]_vars

(***************************************************************************)
(* Properties of applyToJob                                                *)
(***************************************************************************)
ApplyDone == apc = "done"
Steps == {aLog[i].step : i \in DOMAIN aLog}
FailedSteps == {aLog[i].step : i \in {j \in DOMAIN aLog : ~aLog[j].ok}}
BrowserSteps == {"launch", "createPage", "goto", "createAdapter", "run", "close"}
IsFailureResult(r) == DOMAIN r = {"success", "error", "durationMs"} /\ ~r.success

\* C21 (as claimed; does not hold): a call of applyToJob whose
\* BrowserManager was constructed, or whose profile was rejected, ends by
\* returning a result; when validation or any of launch, page creation,
\* navigation, adapter creation, the adapter run or closing the browser
\* failed, that result is {success: false, error, durationMs}.
C21_EveryErrorBecomesAResult ==
    (ApplyDone /\ "BrowserManager" \notin FailedSteps) =>
        /\ aOutcome.kind = "returned"
        /\ (FailedSteps # {} \/ aLog = <<>>) => IsFailureResult(aOutcome.result)

\* C25 (as claimed; does not hold): a call of applyToJob with a profile
\* that validateProfile rejects returns a failure result with the validation
\* message, and has launched no browser, created no page, navigated nowhere,
\* created no adapter and run none.
C25_InvalidProfileNoBrowser ==
    (ApplyDone /\ validateProfile(aProfile) # <<>>) =>
        /\ aOutcome = Returns(FailureResult(validateProfile(aProfile), 0))
        /\ Steps \cap BrowserSteps = {}

LayoutAdapter(url) ==
    CASE url = <<BASE_URL, "/acme", ".html">> -> "AcmeAdapter"
      [] url = <<BASE_URL, "/globex", ".html">> -> "GlobexAdapter"
      [] url = <<BASE_URL, "/initech", ".html">> -> "InitechAdapter"
      [] OTHER -> "<null>"

\* C26 (as claimed; does not hold): a call of applyToJob with the complete
\* profile and the url of the Acme, Globex or Initech form, in which no
\* browser or page interaction failed, instantiated that layout's adapter and
\* returns success: true with a confirmationId.
C26_EveryLayoutSucceeds ==
    (/\ ApplyDone /\ aProfile = sampleProfile
     /\ LayoutAdapter(aUrl) # "<null>"
     /\ FailedSteps \subseteq {"createAdapter"}) =>
        /\ \E i \in DOMAIN aLog :
              aLog[i].step = "createAdapter" /\ aLog[i].class = LayoutAdapter(aUrl)
        /\ aOutcome.kind = "returned"
        /\ aOutcome.result.success
        /\ "confirmationId" \in DOMAIN aOutcome.result

\* the Acme and Globex forms do succeed
C26_TwoLayoutsSucceed ==
    /\ ApplyDone /\ aVariant = "automator" /\ aProfile = sampleProfile
    /\ aUrl = <<BASE_URL, "/globex", ".html">>
    /\ aOutcome = Returns(SuccessResult(<<"R", "7">>, 1))

\* C27 (as claimed; does not hold): a run() that returns success: true
\* carries a confirmationId of at least one character, whatever the
\* confirmation element held.
C27_SuccessHasNonEmptyId ==
    (Returned /\ runResult.success) => runResult.confirmationId # <<>>

Launched == \E i \in DOMAIN aLog : aLog[i] = Did("launch", TRUE)
MainEnded == ApplyDone /\ aCalls = Len(targets)

\* C34 (as claimed; does not hold): when a call of applyToJob in which the
\* launch succeeded has finished, no browser is open; there is never more
\* than one browser open during main's loop, and none when main has ended.
C34_BrowserClosedOnEveryPath ==
    /\ aOpen <= 1
    /\ (ApplyDone /\ Launched) => aOpen = 0
    /\ MainEnded => aOpen = 0

\* what does hold: whenever the launch succeeded, the last thing applyToJob
\* did is a call of close, whatever failed before, and if every close
\* resolved no browser is left open
C34_CloseIsAlwaysCalled ==
    /\ (ApplyDone /\ Launched) => aLog[Len(aLog)].step = "close"
    /\ (ApplyDone /\ Launched /\ aLog[Len(aLog)].ok /\ aCalls = 0) => aOpen = 0

\* main is at its second target while the browser of the first is still open
C34_TwoBrowsersOpen ==
    /\ aCalls = 2 /\ apc = "createPage" /\ aOpen = 2

(***************************************************************************)
(* HumanBehavior: typeWithVariableSpeed and clickWithOffset                *)
(***************************************************************************)
MaxText == 16

\* type FieldType
FieldTypes == {"text", "email", "phone", "date", "number"}

\* the texts typed: a letter, a digit and a special character in turn
Alphabet == <<"a", "7", "@">>
Text(n) == [i \in 1..n |-> Alphabet[((i - 1) % 3) + 1]]
TypedTexts == {Text(n) : n \in 0..MaxText}

\* /[0-9!@#$%^&*()_+\-=\[\]{}|;:,.<>?]/.test(char)
IsSlow(char) == char \in {"7", "@"}

\* charDelay: 100 + Math.random() * 100, or 150 + Math.random() * 100
CharDelay(char) ==
    IF IsSlow(char) THEN [from |-> 150, to |-> 250] ELSE [from |-> 100, to |-> 200]

\* Math.floor(Math.random() * 5)
RandomFive == 0..4

\* variant: only email fields are typed without pauses
avoidPausesEmailOnly(fieldType) == fieldType = "email"

\* const avoidPauses = fieldType === 'email' || fieldType === 'phone'
avoidPauses(fieldType) == fieldType = "email" \/ fieldType = "phone"

\* !avoidPauses && i > 0 && i % (10 + Math.floor(Math.random() * 5)) === 0
Pauses(fieldType, i, r) == ~avoidPauses(fieldType) /\ i > 0 /\ i % (10 + r) = 0

Typed(char) == [e |-> "type", char |-> char, delay |-> CharDelay(char)]
\* await this.randomDelay(300, 500)
Pause == [e |-> "pause", char |-> "", delay |-> [from |-> 300, to |-> 500]]

\* Math.random(), in thousandths
Randoms == {0, 250, 500, 999}

\* element.boundingBox(): null or a box
NoBox == [null |-> TRUE, width |-> 0, height |-> 0]
Boxes == {NoBox} \cup [null : {FALSE}, width : {40, 200}, height : {20, 40}]

\* clickWithOffset: the element.click call; x and y in millionths of a
\* pixel: box.width * (0.3 + Math.random() * 0.4)
clickWithOffset(box, rx, ry) ==
    IF box.null
    THEN [made |-> TRUE, position |-> FALSE, x |-> 0, y |-> 0, box |-> box]
    ELSE [made |-> TRUE, position |-> TRUE, box |-> box,
          x |-> box.width * (300000 + rx * 400),
          y |-> box.height * (300000 + ry * 400)]

InitHuman ==
    EngineIdle /\ ValidateIdle /\ RegistryIdle /\ ApplyIdle /\ StepsIdle /\ HumanIdle

otherThanHuman == <<mvars, rvars, runvars, valvars, regvars, applyvars, stepvars>>

\* typeWithVariableSpeed(text, fieldType)
CallType ==
    /\ hpc = "idle"
    /\ hText' \in TypedTexts
    /\ hField' \in FieldTypes
    /\ hi' = 0
    /\ hpc' = "typing"
    /\ UNCHANGED <<hEvents, hClick>>
    /\ UNCHANGED otherThanHuman

\* one iteration of the for loop: type text[i], then pause or not
TypeChar ==
    /\ hpc = "typing" /\ hi < Len(hText)
    /\ \E r \in RandomFive :
         hEvents' = hEvents \o <<Typed(hText[hi + 1])>>
                    \o (IF Pauses(hField, hi, r) THEN <<Pause>> ELSE <<>>)
    /\ hi' = hi + 1
    /\ UNCHANGED <<hText, hField, hpc, hClick>>
    /\ UNCHANGED otherThanHuman

\* i < text.length is false: typeWithVariableSpeed returns
TypeEnd ==
    /\ hpc = "typing" /\ hi = Len(hText)
    /\ hpc' = "typed"
    /\ UNCHANGED <<hText, hField, hi, hEvents, hClick>>
    /\ UNCHANGED otherThanHuman

\* clickWithOffset(element)
ClickWithOffset ==
    /\ hpc = "idle"
    /\ \E box \in Boxes, rx \in Randoms, ry \in Randoms :
         hClick' = clickWithOffset(box, rx, ry)
    /\ hpc' = "clicked"
    /\ UNCHANGED <<hText, hField, hi, hEvents>>
    /\ UNCHANGED otherThanHuman

NextHuman == CallType \/ TypeChar \/ TypeEnd \/ ClickWithOffset

SpecHuman == InitHuman /\ [][NextHuman]_vars

(***************************************************************************)
(* Properties of HumanBehavior                                             *)
(***************************************************************************)
TypeEvents == SelectSeq(hEvents, LAMBDA ev : ev.e = "type")
PauseAt == {n \in DOMAIN hEvents : hEvents[n].e = "pause"}
\* characters typed before event n and after the pause before it, if any
RunBefore(n) ==
    Cardinality({k \in 1..(n - 1) :
                    /\ hEvents[k].e = "type"
                    /\ \A p \in PauseAt : p < n => p < k})

\* C28: typeWithVariableSpeed types the characters of the text one by one
\* in their order, each exactly once, and for an email or phone field it
\* never makes the 300-500 ms pause.
C28_InOrderAndNoPauseForEmailPhone ==
    /\ Len(TypeEvents) = hi
    /\ \A n \in DOMAIN TypeEvents : TypeEvents[n].char = hText[n]
    /\ hpc = "typed" => Len(TypeEvents) = Len(hText)
    /\ hField \in {"email", "phone"} => PauseAt = {}

\* a phone number of 16 characters typed without a pause
C28_Witness ==
    /\ hpc = "typed" /\ hField = "phone" /\ Len(hText) = 16
    /\ Len(hEvents) = 16

\* C29 (as claimed; does not hold): for a field type other than email and
\* phone, every pause comes after a run of 10 to 14 characters typed since
\* the start or since the pause before, and no run of typed characters
\* without a pause is longer than 14.
C29_PauseAfterTenToFourteen ==
    hField \notin {"email", "phone"} =>
        /\ \A p \in PauseAt : RunBefore(p) \in 10..14
        /\ RunBefore(Len(hEvents) + 1) <= 14

\* C30 (as claimed; does not hold): every click clickWithOffset makes
\* carries a position, with x between 0.3 and 0.7 of the width and y between
\* 0.3 and 0.7 of the height of the element.
C30_EveryClickHasAnOffset ==
    hClick.made =>
        /\ hClick.position
        /\ 300000 * hClick.box.width <= hClick.x /\ hClick.x <= 700000 * hClick.box.width
        /\ 300000 * hClick.box.height <= hClick.y /\ hClick.y <= 700000 * hClick.box.height

\* with a bounding box the click is within 0.3 .. 0.7 of the element
C30_WithBoxInRange ==
    (hClick.made /\ ~hClick.box.null) =>
        /\ hClick.position
        /\ 300000 * hClick.box.width <= hClick.x /\ hClick.x <= 700000 * hClick.box.width
        /\ 300000 * hClick.box.height <= hClick.y /\ hClick.y <= 700000 * hClick.box.height

====
